---- MODULE Spec2Model ----
(***************************************************************************)
(* A model of the pick-and-place sequencer of backend/app/utils/robot.py:  *)
(* the Gripper and Robot device classes, run_conveyor_monitor and          *)
(* run_pick_and_place_cycle.                                               *)
(*                                                                         *)
(* Reals are fixed-point integers: angles in centi-degrees before          *)
(* degree_to_rad and in milli-radians after it, speeds, accelerations and  *)
(* analog values in thousandths.                                           *)
(*                                                                         *)
(* The other programs of the repository that share no state with it are   *)
(* modelled after it, each with a specification of its own: the main      *)
(* program of example.py, the two threads of main.py, the methods of      *)
(* LLMConnectionRepository that write is_active, and detection_queue of   *)
(* api.py.                                                                 *)
(***************************************************************************)
EXTENDS Integers, Sequences, FiniteSets, TLC

VARIABLES
    connection,       \* Robot._connection is set (RTDEControlInterface)
    connection_read,  \* Robot._connection_read is set (RTDEReceiveInterface)
    connection_io,    \* Robot._connection_io is set (RTDEIOInterface)
    home_point,       \* Robot._home_point
    offset,           \* Robot._offset
    heap,             \* the list objects a caller holds, by object id
    home_ref,         \* id of the caller's list that Robot._home_point is, or NoRef
    got,              \* id of the list the home_point getter last returned
    socket,           \* Gripper.socket: NoSocket or the id of a socket object
    nextSock,         \* id of the next socket object socket.socket() creates
    digitalOut,       \* controller's standard digital outputs, by index
    analogOut,        \* controller's analog outputs, by index
    log,              \* every call made on a driver handle or socket, in order
    ret,              \* outcome of the last call of a device method
    pc,               \* run_pick_and_place_cycle: index of the next statement
    cycleRet,         \* run_pick_and_place_cycle: "running", "True", "False", "raised"
    inMonitor,        \* run_conveyor_monitor's loop is active
    stop,             \* run_conveyor_monitor: local stop
    once,             \* run_conveyor_monitor: local once
    ticks,            \* run_conveyor_monitor: loop iterations made
    monitorRet,       \* run_conveyor_monitor: "none", "True", "False", "raised"
    call,             \* a caller of the device classes: its last call
    ncalls,           \* a caller of the device classes: calls made so far
    io_methods,       \* example.py: the Robot class it imports has the I/O methods
    iterations,       \* example.py: iterations of its while loop completed
    stop_event,       \* main.py: stop_event is set
    listener,         \* main.py: position of the thread running cekani_na_vstup
    mover,            \* main.py: position of the thread running pohyb_kloubu
    commands,         \* main.py: the calls made on rtde_c, in order
    joint_angles,     \* main.py: half turns added to joint_angles[5]
    rows,             \* LLM connections: the rows of the table, by id
    nextId,           \* LLM connections: the id the next created row gets
    requests,         \* LLM connections: the repository calls in progress
    served,           \* LLM connections: repository calls begun so far
    detection_queue,  \* api.py: the items of detection_queue, oldest first
    is_running,       \* api.py: the global is_running
    worker,           \* api.py: position of the thread running camera_worker
    frames,           \* api.py: results the worker has built so far
    queue_item,       \* api.py: camera_worker's local queue_item
    discarded,        \* api.py: outcome of the worker's get_nowait of line 235
    queued_item       \* api.py: outcome of the last get_nowait of /detections

vars == <<connection, connection_read, connection_io, home_point, offset,
          heap, home_ref, got,
          socket, nextSock, digitalOut, analogOut, log, ret, pc, cycleRet,
          inMonitor, stop, once, ticks, monitorRet, call, ncalls,
          io_methods, iterations,
          stop_event, listener, mover, commands, joint_angles,
          rows, nextId, requests, served,
          detection_queue, is_running, worker, frames, queue_item, discarded,
          queued_item>>

robotVars == <<connection, connection_read, connection_io>>
poseVars == <<home_point, offset, heap, home_ref, got>>
gripperVars == <<socket, nextSock>>
outputVars == <<digitalOut, analogOut>>
monitorVars == <<inMonitor, stop, once, ticks, monitorRet>>
cycleVars == <<pc, cycleRet>>
exampleVars == <<io_methods, iterations>>

\* The variables of the other programs of the repository, which the device
\* classes and the cycle leave alone.
mainVars == <<stop_event, listener, mover, commands, joint_angles>>
repoVars == <<rows, nextId, requests, served>>
apiVars == <<detection_queue, is_running, worker, frames, queue_item,
             discarded, queued_item>>
others == <<mainVars, repoVars, apiVars>>
elsewhere == <<exampleVars, others>>

\* main.py is not running.
MainIdle ==
    /\ stop_event = FALSE
    /\ listener = "none"
    /\ mover = "none"
    /\ commands = <<>>
    /\ joint_angles = 0

\* Most rows the table gets, and the ids of the rows.
MaxRows == 3
Ids == 1..MaxRows

\* Most repository calls in progress at a time.
MaxConcurrent == 2
Slots == 1..MaxConcurrent

\* A table without rows.
NoRows == [i \in Ids |-> [stored |-> FALSE, is_active |-> FALSE]]

\* No repository call occupies the slot.
IdleRequest ==
    [op |-> "none", id |-> 0, kw |-> "absent", pc |-> "idle", sel |-> {},
     target |-> 0, loaded |-> FALSE, ret |-> "none", before |-> NoRows]

\* The backend is not running.
RepoIdle ==
    /\ rows = NoRows
    /\ nextId = 1
    /\ requests = [r \in Slots |-> IdleRequest]
    /\ served = 0

\* No item: the value of a variable that holds no item of the queue.
NoItem == [kind |-> "none", n |-> 0]

\* The detection API is not running.
ApiIdle ==
    /\ detection_queue = <<>>
    /\ is_running = FALSE
    /\ worker = "none"
    /\ frames = 0
    /\ queue_item = NoItem
    /\ discarded = "none"
    /\ queued_item = NoItem

\* None of the other programs is running.
OthersIdle == MainIdle /\ RepoIdle /\ ApiIdle
callerVars == <<call, ncalls, elsewhere>>

-----------------------------------------------------------------------------
(* Bounds of the model. *)

\* Most loop iterations of run_conveyor_monitor that are explored.
MaxTicks == 3

-----------------------------------------------------------------------------
(* Values. *)

\* A Python value that can be passed where a list of numbers is expected:
\* its type, its entries, and the indices of the entries that are not
\* numbers (the entry kept for such an index stands for no number).
Value(kind, items, nonnum) == [kind |-> kind, items |-> items, nonnum |-> nonnum]

\* A Python list of numbers.
List(items) == Value("list", items, {})

\* The Python value None.
None == Value("None", <<>>, {})

\* No list of the caller: the list Robot._home_point references is one the
\* caller holds no reference to.
NoRef == 0

\* list(x): a new list object with the entries of x.
ListCopy(x) == Value("list", x.items, x.nonnum)

\* Gripper.socket = None.
NoSocket == 0

\* math.radians on a fixed-point angle: centi-degrees to milli-radians.
Radians(angle) == (angle * 31416) \div 180000

\* degree_to_rad: a new list with every angle converted.
degree_to_rad(arr) ==
    List([i \in 1..Len(arr.items) |-> Radians(arr.items[i])])

\* HOME_POINT = [-0.0, -pi/2, 0.0, -pi/2, 0.0, 0.0], in milli-radians.
HOME_POINT == List(<<0, -1571, 0, -1571, 0, 0>>)

\* tcp_offset of create_environment, in millimetres and milli-radians.
TCP_OFFSET == List(<<0, 0, 150, 0, 0, 0>>)

\* Waypoints of run_pick_and_place_cycle, in centi-degrees.
pick_approach == List(<<-2206, -9935, -8709, -8057, 8959, 33807>>)
pick_position == List(<<-2203, -10337, -10023, -6341, 8964, 33796>>)
place_approach == List(<<3010, -8907, 10064, -10214, -9227, 3040>>)
place_position == List(<<3013, -8602, 10934, -11388, -9223, 3033>>)

\* Default arguments, in thousandths.
MOVE_J_SPEED == 400
MOVE_J_ACCELERATION == 500
MOVE_L_SPEED == 100
MOVE_L_ACCELERATION == 200
MOVE_HOME_SPEED == 500
MOVE_HOME_ACCELERATION == 1000
PICK_SPEED == 25
PICK_ACCELERATION == 30

\* Default arguments of run_conveyor_monitor.
START_SENSOR == 3
END_SENSOR == 2
CONVEYOR_ACTIVATE_PIN == 2
CONVEYOR_SPEED_PIN == 1
CONVEYOR_SPEED == 300

\* Index ranges of the controller's I/O, and the analog range in thousandths.
MAX_DIGITAL_INDEX == 7
MAX_ANALOG_INDEX == 1
MAX_ANALOG_VALUE == 1000

-----------------------------------------------------------------------------
(* class Gripper *)

\* Gripper._create_command with the newline before "end" left out.
CreateCommand_NoNewline(command) == "def process():\n" \o command \o "end\n"

\* Gripper._create_command
CreateCommand(command) == "def process():\n" \o command \o "\nend\n"

\* The script each actuation method hands to _send_command.
OPEN_AND_WAIT == "$ 3 \"rq_open_and_wait()\"\n   rq_open_and_wait()"
CLOSE_AND_WAIT == "$ 3 \"rq_close_and_wait()\"\n   rq_close_and_wait()"
ACTIVATE_AND_WAIT == "$ 3 \"rq_activate_and_wait()\"\n   rq_activate_and_wait()"

\* What the network can do to Gripper.connect: "nosocket" is socket.socket()
\* raising, "refused" is socket.connect() raising.
GripperConnectOutcomes == {"ok", "nosocket", "refused"}

\* Gripper.connect without `self.socket = None` in its except clause: the
\* attribute keeps what the try body left in it.
GripperConnect_NoReset(outcome) ==
    /\ socket' = IF outcome = "nosocket" THEN socket ELSE nextSock
    /\ nextSock' = IF outcome = "nosocket" THEN nextSock ELSE nextSock + 1
    /\ log' = Append(log, [op |-> "sock_connect",
                           sock |-> IF outcome = "nosocket" THEN NoSocket ELSE nextSock,
                           ok |-> (outcome = "ok")])
    /\ ret' = IF outcome = "ok" THEN "True" ELSE "False"

\* Gripper.connect. The new socket object is assigned to self.socket before
\* it is connected, whatever self.socket held; any exception resets
\* self.socket to None. The log records the attempt with the socket object
\* it reached (NoSocket: none was created).
GripperConnect(outcome) ==
    /\ socket' = IF outcome = "ok" THEN nextSock ELSE NoSocket
    /\ nextSock' = IF outcome = "nosocket" THEN nextSock ELSE nextSock + 1
    /\ log' = Append(log, [op |-> "sock_connect",
                           sock |-> IF outcome = "nosocket" THEN NoSocket ELSE nextSock,
                           ok |-> (outcome = "ok")])
    /\ ret' = IF outcome = "ok" THEN "True" ELSE "False"

\* Gripper.close_connection without its `if self.socket`.
GripperCloseConnection_Unguarded ==
    /\ socket' = IF socket # NoSocket THEN NoSocket ELSE socket
    /\ log' = IF socket # NoSocket
              THEN Append(log, [op |-> "sock_close", sock |-> socket])
              ELSE log
    /\ ret' = IF socket # NoSocket THEN "None" ELSE "AttributeError"
    /\ UNCHANGED nextSock

\* Gripper.close_connection closing the socket but keeping it in
\* self.socket.
GripperCloseConnection_KeepsHandle ==
    /\ log' = IF socket # NoSocket
              THEN Append(log, [op |-> "sock_close", sock |-> socket])
              ELSE log
    /\ ret' = "None"
    /\ UNCHANGED <<socket, nextSock>>

\* Gripper.close_connection
GripperCloseConnection ==
    /\ socket' = NoSocket
    /\ log' = IF socket # NoSocket
              THEN Append(log, [op |-> "sock_close", sock |-> socket])
              ELSE log
    /\ ret' = "None"
    /\ UNCHANGED nextSock

\* Gripper._send_command returning True from its except clause too.
GripperSendCommand_AlwaysTrue(command, sendOk) ==
    /\ log' = IF socket # NoSocket
              THEN Append(log, [op |-> "send", sock |-> socket,
                                payload |-> CreateCommand(command)])
              ELSE log
    /\ ret' = IF socket # NoSocket THEN "True" ELSE "False"
    /\ UNCHANGED gripperVars

\* Gripper._send_command closing the connection when the send fails.
GripperSendCommand_TearsDown(command, sendOk) ==
    /\ log' = IF socket = NoSocket THEN log
              ELSE IF sendOk
              THEN Append(log, [op |-> "send", sock |-> socket,
                                payload |-> CreateCommand(command)])
              ELSE log \o <<[op |-> "send", sock |-> socket,
                              payload |-> CreateCommand(command)],
                             [op |-> "sock_close", sock |-> socket]>>
    /\ ret' = IF socket # NoSocket /\ sendOk THEN "True" ELSE "False"
    /\ socket' = IF socket # NoSocket /\ ~sendOk THEN NoSocket ELSE socket
    /\ UNCHANGED nextSock

\* Gripper._send_command: sendOk is whether socket.send() returns or raises.
GripperSendCommand(command, sendOk) ==
    /\ log' = IF socket # NoSocket
              THEN Append(log, [op |-> "send", sock |-> socket,
                                payload |-> CreateCommand(command)])
              ELSE log
    /\ ret' = IF socket # NoSocket /\ sendOk THEN "True" ELSE "False"
    /\ UNCHANGED gripperVars

\* Gripper.open_and_wait
GripperOpenAndWait(sendOk) == GripperSendCommand(OPEN_AND_WAIT, sendOk)

\* Gripper.close_and_wait
GripperCloseAndWait(sendOk) == GripperSendCommand(CLOSE_AND_WAIT, sendOk)

\* Gripper.activate_and_wait
GripperActivateAndWait(sendOk) == GripperSendCommand(ACTIVATE_AND_WAIT, sendOk)

-----------------------------------------------------------------------------
(* class Robot *)

\* What the driver can do to Robot.connect: the import fails, or one of the
\* three constructors raises, or all succeed.
RobotConnectOutcomes == {"ok", "ImportError", "receive", "control", "io"}

\* The handles as the try body of Robot.connect leaves them when it stops
\* at `outcome`: receive, then control, then IO are assigned in this order.
ConnectTry(outcome) ==
    [read |-> IF outcome \in {"control", "io", "ok"} THEN TRUE ELSE connection_read,
     ctrl |-> IF outcome \in {"io", "ok"} THEN TRUE ELSE connection,
     io   |-> IF outcome = "ok" THEN TRUE ELSE connection_io]

\* Robot.connect with the except clauses only printing and returning False:
\* the handles stay as the try body left them.
RobotConnect_NoReset(outcome) ==
    LET t == ConnectTry(outcome) IN
    /\ connection_read' = t.read
    /\ connection' = t.ctrl
    /\ connection_io' = t.io
    /\ log' = Append(log, [op |-> "rtde_connect", ok |-> (outcome = "ok")])
    /\ ret' = IF outcome = "ok" THEN "True" ELSE "False"

\* Robot.connect: both except clauses reset the three handles to None.
RobotConnect(outcome) ==
    LET t == ConnectTry(outcome) IN
    /\ connection_read' = IF outcome = "ok" THEN t.read ELSE FALSE
    /\ connection' = IF outcome = "ok" THEN t.ctrl ELSE FALSE
    /\ connection_io' = IF outcome = "ok" THEN t.io ELSE FALSE
    /\ log' = Append(log, [op |-> "rtde_connect", ok |-> (outcome = "ok")])
    /\ ret' = IF outcome = "ok" THEN "True" ELSE "False"

\* The home_point setter storing the list it is given instead of a copy.
RobotSetHomePoint_NoCopy(new_home_point, ref) ==
    LET error == IF new_home_point.kind # "list" THEN "TypeError"
                 ELSE IF Len(new_home_point.items) # 6 THEN "ValueError"
                 ELSE IF new_home_point.nonnum # {} THEN "ValueError"
                 ELSE "none"
    IN  /\ home_point' = IF error = "none" THEN new_home_point ELSE home_point
        /\ home_ref' = IF error = "none" THEN ref ELSE home_ref
        /\ ret' = IF error = "none" THEN "None" ELSE error
        /\ UNCHANGED <<offset, log, got>>

\* The home_point setter: a TypeError for a value that is no list, a
\* ValueError for a list that does not hold 6 numbers, else a copy of the
\* list is stored.
\* new_home_point is the value assigned and ref the id of that object among
\* the caller's lists; the copy stored is an object the caller does not
\* hold.
RobotSetHomePoint(new_home_point, ref) ==
    LET error == IF new_home_point.kind # "list" THEN "TypeError"
                 ELSE IF Len(new_home_point.items) # 6 THEN "ValueError"
                 ELSE IF new_home_point.nonnum # {} THEN "ValueError"
                 ELSE "none"
    IN  /\ home_point' = IF error = "none"
                         THEN ListCopy(new_home_point)
                         ELSE home_point
        /\ home_ref' = IF error = "none" THEN NoRef ELSE home_ref
        /\ ret' = IF error = "none" THEN "None" ELSE error
        /\ UNCHANGED <<offset, log, got>>

\* The home_point getter: a new list with the entries of self._home_point,
\* which the caller now holds.
RobotGetHomePoint ==
    /\ heap' = Append(heap, ListCopy(home_point))
    /\ got' = Len(heap) + 1
    /\ ret' = "list"
    /\ UNCHANGED <<home_point, home_ref, offset, log>>

\* The offset setter with the test of the entries left out.
RobotSetOffset_NoNumericCheck(new_offset) ==
    LET error == IF new_offset.kind = "None" THEN "none"
                 ELSE IF new_offset.kind # "list" THEN "TypeError"
                 ELSE IF Len(new_offset.items) # 6 THEN "ValueError"
                 ELSE "none"
    IN  /\ offset' = IF error # "none" THEN offset
                     ELSE IF new_offset.kind = "None" THEN None
                     ELSE ListCopy(new_offset)
        /\ ret' = IF error = "none" THEN "None" ELSE error
        /\ UNCHANGED <<home_point, home_ref, got, log>>

\* The offset setter: None clears the offset; a TypeError for any other
\* value that is no list, a ValueError for a list that does not hold 6
\* numbers, else a copy of the list is stored.
RobotSetOffset(new_offset) ==
    LET error == IF new_offset.kind = "None" THEN "none"
                 ELSE IF new_offset.kind # "list" THEN "TypeError"
                 ELSE IF Len(new_offset.items) # 6 THEN "ValueError"
                 ELSE IF new_offset.nonnum # {} THEN "ValueError"
                 ELSE "none"
    IN  /\ offset' = IF error # "none" THEN offset
                     ELSE IF new_offset.kind = "None" THEN None
                     ELSE ListCopy(new_offset)
        /\ ret' = IF error = "none" THEN "None" ELSE error
        /\ UNCHANGED <<home_point, home_ref, got, log>>

\* Which release call of Robot.disconnect raises, if any.
ReleaseOutcomes == {"ok", "control", "receive", "io"}

\* The release calls Robot.disconnect makes, in order, up to the one that
\* raises: hasattr(None, "disconnect") is false, so an unset handle is skipped.
ReleaseCalls(relFail) ==
    LET c == IF connection THEN <<[op |-> "release", iface |-> "control"]>> ELSE <<>>
        r == IF connection_read THEN <<[op |-> "release", iface |-> "receive"]>> ELSE <<>>
        i == IF connection_io THEN <<[op |-> "release", iface |-> "io"]>> ELSE <<>>
    IN  IF relFail = "control" /\ connection THEN c
        ELSE IF relFail = "receive" /\ connection_read THEN c \o r
        ELSE c \o r \o i

\* The release call named by relFail is made and raises.
ReleaseRaises(relFail) ==
    \/ relFail = "control" /\ connection
    \/ relFail = "receive" /\ connection_read
    \/ relFail = "io" /\ connection_io

\* Robot.disconnect with the reset of _connection forgotten.
RobotDisconnect_KeepsControl(relFail) ==
    /\ log' = log \o ReleaseCalls(relFail)
    /\ IF ReleaseRaises(relFail)
       THEN /\ UNCHANGED robotVars
            /\ ret' = "Exception"
       ELSE /\ UNCHANGED connection
            /\ connection_read' = FALSE
            /\ connection_io' = FALSE
            /\ ret' = "None"

\* Robot.disconnect: the handles are reset after the three release calls, so
\* an exception of a release call leaves them as they were.
RobotDisconnect(relFail) ==
    /\ log' = log \o ReleaseCalls(relFail)
    /\ IF ReleaseRaises(relFail)
       THEN /\ UNCHANGED robotVars
            /\ ret' = "Exception"
       ELSE /\ connection' = FALSE
            /\ connection_read' = FALSE
            /\ connection_io' = FALSE
            /\ ret' = "None"

\* The check of the target with the length forgotten.
IsListOfSix_AnyLength(target) == target.kind = "list"

\* isinstance(target, list) and len(target) == 6
IsListOfSix(target) == target.kind = "list" /\ Len(target.items) = 6

\* Robot.move_j without its first check, `if not self._connection`.
RobotMoveJ_NoConnectionCheck(target_joints, speed, acceleration) ==
    /\ log' = IF IsListOfSix(target_joints)
              THEN Append(log, [op |-> "moveJ", target |-> target_joints,
                                speed |-> speed, acceleration |-> acceleration])
              ELSE log
    /\ ret' = "None"
    /\ UNCHANGED robotVars

\* Robot.move_j: an exception of moveJ is caught and printed, so the call
\* leaves the same state whether the driver raises or not.
RobotMoveJ(target_joints, speed, acceleration) ==
    /\ log' = IF connection /\ IsListOfSix(target_joints)
              THEN Append(log, [op |-> "moveJ", target |-> target_joints,
                                speed |-> speed, acceleration |-> acceleration])
              ELSE log
    /\ ret' = "None"
    /\ UNCHANGED robotVars

\* Robot.move_l: as move_j, through moveL_FK.
RobotMoveL(target_joints, speed, acceleration) ==
    /\ log' = IF connection /\ IsListOfSix(target_joints)
              THEN Append(log, [op |-> "moveL_FK", target |-> target_joints,
                                speed |-> speed, acceleration |-> acceleration])
              ELSE log
    /\ ret' = "None"
    /\ UNCHANGED robotVars

\* Robot.move_home moving to the module's HOME_POINT instead of the
\* instance's home point.
RobotMoveHome_Constant(speed, acceleration) ==
    RobotMoveJ(HOME_POINT, speed, acceleration)

\* Robot.move_home going through move_l instead of move_j.
RobotMoveHome_Linear(speed, acceleration) ==
    RobotMoveL(home_point, speed, acceleration)

\* Robot.move_home
RobotMoveHome(speed, acceleration) == RobotMoveJ(home_point, speed, acceleration)

\* What can happen in the try body of get_current_joints and
\* get_current_pose: the import fails, the constructor of the receive
\* interface raises, the query raises, the disconnect raises, or all return.
QueryOutcomes == {"ok", "ImportError", "construct", "query", "disconnect"}

\* The calls the try body makes on the receive interface it constructs,
\* up to the one that raises.
QueryCalls(query, outcome) ==
    IF outcome = "ImportError" THEN <<>>
    ELSE IF outcome = "construct"
    THEN <<[op |-> "RTDEReceiveInterface", ok |-> FALSE]>>
    ELSE IF outcome = "query"
    THEN <<[op |-> "RTDEReceiveInterface", ok |-> TRUE],
           [op |-> query, ok |-> FALSE]>>
    ELSE <<[op |-> "RTDEReceiveInterface", ok |-> TRUE],
           [op |-> query, ok |-> TRUE],
           [op |-> "rtde_r.disconnect", ok |-> (outcome = "ok")]>>

\* Robot.get_current_joints: None when not connected and when anything in
\* the try body raises, else the list the controller answered.
RobotGetCurrentJoints(outcome) ==
    /\ log' = IF connection THEN log \o QueryCalls("getActualQ", outcome) ELSE log
    /\ ret' = IF connection /\ outcome = "ok" THEN "list" ELSE "None"
    /\ UNCHANGED robotVars

\* Robot.get_current_pose without its try/except.
RobotGetCurrentPose_Uncaught(outcome) ==
    /\ log' = IF connection THEN log \o QueryCalls("getActualTCPPose", outcome) ELSE log
    /\ ret' = IF ~connection THEN "None"
              ELSE IF outcome = "ok" THEN "list"
              ELSE "Exception"
    /\ UNCHANGED robotVars

\* Robot.get_current_pose
RobotGetCurrentPose(outcome) ==
    /\ log' = IF connection THEN log \o QueryCalls("getActualTCPPose", outcome) ELSE log
    /\ ret' = IF connection /\ outcome = "ok" THEN "list" ELSE "None"
    /\ UNCHANGED robotVars

\* The I/O methods are composed inside one loop iteration of the conveyor
\* monitor, so they are functions of a record s of the log, the outputs and
\* the exception raised so far (exc = "none": none); once an exception is
\* raised the calls after it are not made.
IOState == [log |-> log, dOut |-> digitalOut, aOut |-> analogOut, exc |-> "none"]

\* Robot.write_digital_output with the upper bound of the index off by one.
WriteDigitalOutput_OffByOne(s, index, value) ==
    IF s.exc # "none" THEN s
    ELSE IF index < 0 \/ index > MAX_DIGITAL_INDEX + 1 THEN [s EXCEPT !.exc = "ValueError"]
    ELSE IF ~connection_io THEN [s EXCEPT !.exc = "AttributeError"]
    ELSE [s EXCEPT !.log = Append(@, [op |-> "setStandardDigitalOut",
                                      index |-> index, value |-> value]),
                   !.dOut[index] = value]

\* Robot.write_digital_output
WriteDigitalOutput(s, index, value) ==
    IF s.exc # "none" THEN s
    ELSE IF index < 0 \/ index > MAX_DIGITAL_INDEX THEN [s EXCEPT !.exc = "ValueError"]
    ELSE IF ~connection_io THEN [s EXCEPT !.exc = "AttributeError"]
    ELSE [s EXCEPT !.log = Append(@, [op |-> "setStandardDigitalOut",
                                      index |-> index, value |-> value]),
                   !.dOut[index] = value]

\* Robot.read_digital_input: value is what the driver answers.
ReadDigitalInput(s, index, value) ==
    IF s.exc # "none" THEN s
    ELSE IF index < 0 \/ index > MAX_DIGITAL_INDEX THEN [s EXCEPT !.exc = "ValueError"]
    ELSE IF ~connection_read THEN [s EXCEPT !.exc = "AttributeError"]
    ELSE [s EXCEPT !.log = Append(@, [op |-> "getDigitalInState",
                                      index |-> index, value |-> value])]

\* Robot.write_analog_output taking the interval of the value as open.
WriteAnalogOutput_OpenInterval(s, index, value) ==
    IF s.exc # "none" THEN s
    ELSE IF index < 0 \/ index > MAX_ANALOG_INDEX THEN [s EXCEPT !.exc = "ValueError"]
    ELSE IF ~(0 < value /\ value < MAX_ANALOG_VALUE) THEN [s EXCEPT !.exc = "ValueError"]
    ELSE IF ~connection_io THEN [s EXCEPT !.exc = "AttributeError"]
    ELSE [s EXCEPT !.log = Append(@, [op |-> "setAnalogOutputVoltage",
                                      index |-> index, value |-> value]),
                   !.aOut[index] = value]

\* Robot.write_analog_output
WriteAnalogOutput(s, index, value) ==
    IF s.exc # "none" THEN s
    ELSE IF index < 0 \/ index > MAX_ANALOG_INDEX THEN [s EXCEPT !.exc = "ValueError"]
    ELSE IF ~(0 <= value /\ value <= MAX_ANALOG_VALUE) THEN [s EXCEPT !.exc = "ValueError"]
    ELSE IF ~connection_io THEN [s EXCEPT !.exc = "AttributeError"]
    ELSE [s EXCEPT !.log = Append(@, [op |-> "setAnalogOutputVoltage",
                                      index |-> index, value |-> value]),
                   !.aOut[index] = value]

\* Robot.read_digital_output: value is what the driver answers.
ReadDigitalOutput(s, index, value) ==
    IF s.exc # "none" THEN s
    ELSE IF index < 0 \/ index > MAX_DIGITAL_INDEX THEN [s EXCEPT !.exc = "ValueError"]
    ELSE IF ~connection_read THEN [s EXCEPT !.exc = "AttributeError"]
    ELSE [s EXCEPT !.log = Append(@, [op |-> "getDigitalOutState",
                                      index |-> index, value |-> value])]

\* Robot.read_analog_output: value is what the driver answers.
ReadAnalogOutput(s, index, value) ==
    IF s.exc # "none" THEN s
    ELSE IF index < 0 \/ index > MAX_ANALOG_INDEX THEN [s EXCEPT !.exc = "ValueError"]
    ELSE IF ~connection_read THEN [s EXCEPT !.exc = "AttributeError"]
    ELSE [s EXCEPT !.log = Append(@, [op |-> IF index = 1
                                             THEN "getStandardAnalogOutput1"
                                             ELSE "getStandardAnalogOutput0",
                                      value |-> value])]

-----------------------------------------------------------------------------
(* run_conveyor_monitor *)

\* The loop iteration with the start sensor's value ignored: the conveyor
\* is enabled on every iteration.
MonitorIteration_AlwaysEnable(startVal, endVal) ==
    LET s1 == ReadDigitalInput(IOState, START_SENSOR, startVal)
        s2 == WriteAnalogOutput(
                  WriteDigitalOutput(s1, CONVEYOR_ACTIVATE_PIN, TRUE),
                  CONVEYOR_SPEED_PIN, CONVEYOR_SPEED)
        s3 == ReadDigitalInput(s2, END_SENSOR, endVal)
    IN  IF endVal
        THEN WriteAnalogOutput(
                 WriteDigitalOutput(s3, CONVEYOR_ACTIVATE_PIN, FALSE),
                 CONVEYOR_SPEED_PIN, 0)
        ELSE s3

\* The loop iteration with its two `if` statements in the other order: the
\* end sensor is handled before the start sensor.
MonitorIteration_EndFirst(startVal, endVal) ==
    LET s1 == ReadDigitalInput(IOState, END_SENSOR, endVal)
        s2 == IF endVal
              THEN WriteAnalogOutput(
                       WriteDigitalOutput(s1, CONVEYOR_ACTIVATE_PIN, FALSE),
                       CONVEYOR_SPEED_PIN, 0)
              ELSE s1
        s3 == ReadDigitalInput(s2, START_SENSOR, startVal)
    IN  IF startVal
        THEN WriteAnalogOutput(
                 WriteDigitalOutput(s3, CONVEYOR_ACTIVATE_PIN, TRUE),
                 CONVEYOR_SPEED_PIN, CONVEYOR_SPEED)
        ELSE s3

\* The loop iteration stopping the conveyor whenever the start sensor is
\* not asserted.
MonitorIteration_StopsWithoutStart(startVal, endVal) ==
    LET s1 == ReadDigitalInput(IOState, START_SENSOR, startVal)
        s2 == IF startVal
              THEN WriteAnalogOutput(
                       WriteDigitalOutput(s1, CONVEYOR_ACTIVATE_PIN, TRUE),
                       CONVEYOR_SPEED_PIN, CONVEYOR_SPEED)
              ELSE WriteAnalogOutput(
                       WriteDigitalOutput(s1, CONVEYOR_ACTIVATE_PIN, FALSE),
                       CONVEYOR_SPEED_PIN, 0)
        s3 == ReadDigitalInput(s2, END_SENSOR, endVal)
    IN  IF endVal
        THEN WriteAnalogOutput(
                 WriteDigitalOutput(s3, CONVEYOR_ACTIVATE_PIN, FALSE),
                 CONVEYOR_SPEED_PIN, 0)
        ELSE s3

\* The loop iteration whose end branch writes enable False but leaves the
\* speed as it is.
MonitorIteration_KeepsSpeed(startVal, endVal) ==
    LET s1 == ReadDigitalInput(IOState, START_SENSOR, startVal)
        s2 == IF startVal
              THEN WriteAnalogOutput(
                       WriteDigitalOutput(s1, CONVEYOR_ACTIVATE_PIN, TRUE),
                       CONVEYOR_SPEED_PIN, CONVEYOR_SPEED)
              ELSE s1
        s3 == ReadDigitalInput(s2, END_SENSOR, endVal)
    IN  IF endVal
        THEN WriteDigitalOutput(s3, CONVEYOR_ACTIVATE_PIN, FALSE)
        ELSE s3

\* One iteration of the while loop after the sleep, with the values the two
\* sensor reads return: the record of IOState after the iteration's calls.
MonitorIteration(startVal, endVal) ==
    LET s1 == ReadDigitalInput(IOState, START_SENSOR, startVal)
        s2 == IF startVal
              THEN WriteAnalogOutput(
                       WriteDigitalOutput(s1, CONVEYOR_ACTIVATE_PIN, TRUE),
                       CONVEYOR_SPEED_PIN, CONVEYOR_SPEED)
              ELSE s1
        s3 == ReadDigitalInput(s2, END_SENSOR, endVal)
    IN  IF endVal
        THEN WriteAnalogOutput(
                 WriteDigitalOutput(s3, CONVEYOR_ACTIVATE_PIN, FALSE),
                 CONVEYOR_SPEED_PIN, 0)
        ELSE s3

-----------------------------------------------------------------------------
(* run_pick_and_place_cycle *)

\* The statements of the function in order, sleeps and prints left out:
\* the two operands of the `if`, the body of its true branch, the return.
CYCLE == <<
    [op |-> "if_robot_connect"],
    [op |-> "if_gripper_connect"],
    [op |-> "move_home"],
    [op |-> "run_conveyor_monitor"],
    [op |-> "move_j", target |-> pick_approach,
     speed |-> MOVE_J_SPEED, acceleration |-> MOVE_J_ACCELERATION],
    [op |-> "robot_disconnect"],
    [op |-> "gripper_connect"],
    [op |-> "open_and_wait"],
    [op |-> "close_connection"],
    [op |-> "robot_connect"],
    [op |-> "move_l", target |-> pick_position,
     speed |-> PICK_SPEED, acceleration |-> PICK_ACCELERATION],
    [op |-> "robot_disconnect"],
    [op |-> "gripper_connect"],
    [op |-> "close_and_wait"],
    [op |-> "close_connection"],
    [op |-> "robot_connect"],
    [op |-> "move_l", target |-> pick_approach,
     speed |-> MOVE_L_SPEED, acceleration |-> MOVE_L_ACCELERATION],
    [op |-> "move_home"],
    [op |-> "move_j", target |-> place_approach,
     speed |-> MOVE_J_SPEED, acceleration |-> MOVE_J_ACCELERATION],
    [op |-> "move_l", target |-> place_position,
     speed |-> MOVE_L_SPEED, acceleration |-> MOVE_L_ACCELERATION],
    [op |-> "robot_disconnect"],
    [op |-> "gripper_connect"],
    [op |-> "open_and_wait"],
    [op |-> "close_connection"],
    [op |-> "robot_connect"],
    [op |-> "move_l", target |-> place_approach,
     speed |-> MOVE_L_SPEED, acceleration |-> MOVE_L_ACCELERATION],
    [op |-> "move_home"],
    [op |-> "robot_disconnect"],
    [op |-> "return_true"] >>

\* The cycle is at a statement with this name.
At(op) == cycleRet = "running" /\ pc \in 1..Len(CYCLE) /\ CYCLE[pc].op = op

\* The cycle goes on to its next statement.
Advance == pc' = pc + 1 /\ UNCHANGED cycleRet

\* The first operand of the `if` with its value dropped: the second operand
\* is evaluated whatever robot.connect() returned.
IfRobotConnect_Eager ==
    /\ At("if_robot_connect")
    /\ \E outcome \in RobotConnectOutcomes : RobotConnect(outcome)
    /\ Advance
    /\ UNCHANGED <<callerVars, poseVars, gripperVars, outputVars, monitorVars>>

\* `if robot.connect() and ...`: a false first operand takes the else branch
\* without evaluating the second.
IfRobotConnect ==
    /\ At("if_robot_connect")
    /\ \E outcome \in RobotConnectOutcomes :
          /\ RobotConnect(outcome)
          /\ IF outcome = "ok"
             THEN Advance
             ELSE cycleRet' = "False" /\ UNCHANGED pc
    /\ UNCHANGED <<callerVars, poseVars, gripperVars, outputVars, monitorVars>>

\* The second operand of the `if` with its value dropped: the body runs
\* whatever gripper.connect() returned.
IfGripperConnect_Ignored ==
    /\ At("if_gripper_connect")
    /\ \E outcome \in GripperConnectOutcomes : GripperConnect(outcome)
    /\ Advance
    /\ UNCHANGED <<callerVars, robotVars, poseVars, outputVars, monitorVars>>

\* `... and gripper.connect()`: a false second operand takes the else branch.
IfGripperConnect ==
    /\ At("if_gripper_connect")
    /\ \E outcome \in GripperConnectOutcomes :
          /\ GripperConnect(outcome)
          /\ IF outcome = "ok"
             THEN Advance
             ELSE cycleRet' = "False" /\ UNCHANGED pc
    /\ UNCHANGED <<callerVars, robotVars, poseVars, outputVars, monitorVars>>

\* robot.move_home()
StepMoveHome ==
    /\ At("move_home")
    /\ RobotMoveHome(MOVE_HOME_SPEED, MOVE_HOME_ACCELERATION)
    /\ Advance
    /\ UNCHANGED <<callerVars, poseVars, gripperVars, outputVars, monitorVars>>

\* robot.move_j(degree_to_rad(...))
StepMoveJ ==
    /\ At("move_j")
    /\ RobotMoveJ(degree_to_rad(CYCLE[pc].target), CYCLE[pc].speed,
                  CYCLE[pc].acceleration)
    /\ Advance
    /\ UNCHANGED <<callerVars, poseVars, gripperVars, outputVars, monitorVars>>

\* robot.move_l(degree_to_rad(...), ...)
StepMoveL ==
    /\ At("move_l")
    /\ RobotMoveL(degree_to_rad(CYCLE[pc].target), CYCLE[pc].speed,
                  CYCLE[pc].acceleration)
    /\ Advance
    /\ UNCHANGED <<callerVars, poseVars, gripperVars, outputVars, monitorVars>>

\* run_conveyor_monitor(robot) is entered: without a control handle it
\* returns False at once (the cycle ignores the value), else the loop starts.
MonitorEnter ==
    /\ At("run_conveyor_monitor")
    /\ ~inMonitor
    /\ IF ~connection
       THEN /\ monitorRet' = "False"
            /\ Advance
            /\ UNCHANGED <<inMonitor, stop, once, ticks>>
       ELSE /\ inMonitor' = TRUE
            /\ stop' = FALSE
            /\ once' = FALSE
            /\ ticks' = 0
            /\ UNCHANGED <<monitorRet, pc, cycleRet>>
    /\ UNCHANGED <<callerVars, robotVars, poseVars, gripperVars, outputVars, log, ret>>

\* The loop iteration with `stop = True` forgotten in the end sensor's branch.
MonitorTick_NoStop ==
    /\ At("run_conveyor_monitor")
    /\ inMonitor /\ ~stop
    /\ ticks < MaxTicks
    /\ \E startVal \in BOOLEAN, endVal \in BOOLEAN :
          LET s == MonitorIteration(startVal, endVal) IN
          /\ log' = s.log
          /\ digitalOut' = s.dOut
          /\ analogOut' = s.aOut
          /\ ticks' = ticks + 1
          /\ ret' = "None"
          /\ once' = (once \/ startVal)
          /\ UNCHANGED <<stop, monitorRet, cycleRet, inMonitor>>
    /\ UNCHANGED <<callerVars, robotVars, poseVars, gripperVars, pc>>

\* One iteration of the monitor's loop. An exception of an I/O method leaves
\* the monitor and the cycle, which catch nothing.
MonitorTick ==
    /\ At("run_conveyor_monitor")
    /\ inMonitor /\ ~stop
    /\ ticks < MaxTicks
    /\ \E startVal \in BOOLEAN, endVal \in BOOLEAN :
          LET s == MonitorIteration(startVal, endVal) IN
          /\ log' = s.log
          /\ digitalOut' = s.dOut
          /\ analogOut' = s.aOut
          /\ ticks' = ticks + 1
          /\ IF s.exc # "none"
             THEN /\ ret' = s.exc
                  /\ monitorRet' = "raised"
                  /\ cycleRet' = "raised"
                  /\ inMonitor' = FALSE
                  /\ UNCHANGED <<stop, once>>
             ELSE /\ ret' = "None"
                  /\ once' = (once \/ startVal)
                  /\ stop' = endVal
                  /\ UNCHANGED <<monitorRet, cycleRet, inMonitor>>
    /\ UNCHANGED <<callerVars, robotVars, poseVars, gripperVars, pc>>

\* The loop has ended: return True.
MonitorReturn ==
    /\ At("run_conveyor_monitor")
    /\ inMonitor /\ stop
    /\ monitorRet' = "True"
    /\ inMonitor' = FALSE
    /\ Advance
    /\ UNCHANGED <<callerVars, robotVars, poseVars, gripperVars, outputVars, log, ret,
                   stop, once, ticks>>

\* robot.disconnect(): an exception of a release call leaves the cycle.
StepRobotDisconnect ==
    /\ At("robot_disconnect")
    /\ \E relFail \in ReleaseOutcomes :
          /\ RobotDisconnect(relFail)
          /\ IF ReleaseRaises(relFail)
             THEN cycleRet' = "raised" /\ UNCHANGED pc
             ELSE Advance
    /\ UNCHANGED <<callerVars, poseVars, gripperVars, outputVars, monitorVars>>

\* robot.connect() as a statement: the value returned is dropped.
StepRobotConnect ==
    /\ At("robot_connect")
    /\ \E outcome \in RobotConnectOutcomes : RobotConnect(outcome)
    /\ Advance
    /\ UNCHANGED <<callerVars, poseVars, gripperVars, outputVars, monitorVars>>

\* gripper.connect() as a statement: the value returned is dropped.
StepGripperConnect ==
    /\ At("gripper_connect")
    /\ \E outcome \in GripperConnectOutcomes : GripperConnect(outcome)
    /\ Advance
    /\ UNCHANGED <<callerVars, robotVars, poseVars, outputVars, monitorVars>>

\* gripper.open_and_wait()
StepOpenAndWait ==
    /\ At("open_and_wait")
    /\ \E sendOk \in BOOLEAN : GripperOpenAndWait(sendOk)
    /\ Advance
    /\ UNCHANGED <<callerVars, robotVars, poseVars, outputVars, monitorVars>>

\* gripper.close_and_wait()
StepCloseAndWait ==
    /\ At("close_and_wait")
    /\ \E sendOk \in BOOLEAN : GripperCloseAndWait(sendOk)
    /\ Advance
    /\ UNCHANGED <<callerVars, robotVars, poseVars, outputVars, monitorVars>>

\* gripper.close_connection()
StepCloseConnection ==
    /\ At("close_connection")
    /\ GripperCloseConnection
    /\ Advance
    /\ UNCHANGED <<callerVars, robotVars, poseVars, outputVars, monitorVars>>

\* return True
StepReturnTrue ==
    /\ At("return_true")
    /\ cycleRet' = "True"
    /\ UNCHANGED <<callerVars, robotVars, poseVars, gripperVars, outputVars, monitorVars,
                   log, ret, pc>>

-----------------------------------------------------------------------------
(* The specification: one call of run_pick_and_place_cycle on the robot and *)
(* the gripper that create_environment returns, with any state of the       *)
(* conveyor's outputs.                                                      *)

Init ==
    /\ connection = FALSE
    /\ connection_read = FALSE
    /\ connection_io = FALSE
    /\ home_point = HOME_POINT
    /\ offset = TCP_OFFSET
    /\ heap = <<>>
    /\ home_ref = NoRef
    /\ got = NoRef
    /\ socket = NoSocket
    /\ nextSock = 1
    /\ \E enabled \in BOOLEAN :
          digitalOut = [i \in 0..MAX_DIGITAL_INDEX |->
                           IF i = CONVEYOR_ACTIVATE_PIN THEN enabled ELSE FALSE]
    /\ \E speed \in {0, CONVEYOR_SPEED} :
          analogOut = [i \in 0..MAX_ANALOG_INDEX |->
                          IF i = CONVEYOR_SPEED_PIN THEN speed ELSE 0]
    /\ log = <<>>
    /\ ret = "None"
    /\ pc = 1
    /\ cycleRet = "running"
    /\ inMonitor = FALSE
    /\ stop = FALSE
    /\ once = FALSE
    /\ ticks = 0
    /\ monitorRet = "none"
    /\ call = [op |-> "none"]
    /\ ncalls = 0
    /\ io_methods = TRUE
    /\ iterations = 0
    /\ OthersIdle

Next ==
    \/ IfRobotConnect
    \/ IfGripperConnect
    \/ StepMoveHome
    \/ StepMoveJ
    \/ StepMoveL
    \/ MonitorEnter
    \/ MonitorTick
    \/ MonitorReturn
    \/ StepRobotDisconnect
    \/ StepRobotConnect
    \/ StepGripperConnect
    \/ StepOpenAndWait
    \/ StepCloseAndWait
    \/ StepCloseConnection
    \/ StepReturnTrue

Spec == Init /\ [][Next]_vars

-----------------------------------------------------------------------------
(* A caller of the Robot class: any calls of its methods, one at a time, on *)
(* a newly constructed robot.                                               *)

\* The devices as create_environment returns them, the conveyor's outputs
\* off, and no cycle running.
CallerInit ==
    /\ connection = FALSE
    /\ connection_read = FALSE
    /\ connection_io = FALSE
    /\ home_point = HOME_POINT
    /\ offset = TCP_OFFSET
    /\ heap = <<>>
    /\ home_ref = NoRef
    /\ got = NoRef
    /\ socket = NoSocket
    /\ nextSock = 1
    /\ digitalOut = [i \in 0..MAX_DIGITAL_INDEX |-> FALSE]
    /\ analogOut = [i \in 0..MAX_ANALOG_INDEX |-> 0]
    /\ log = <<>>
    /\ ret = "None"
    /\ pc = 0
    /\ cycleRet = "idle"
    /\ inMonitor = FALSE
    /\ stop = FALSE
    /\ once = FALSE
    /\ ticks = 0
    /\ monitorRet = "none"
    /\ call = [op |-> "none"]
    /\ ncalls = 0
    /\ io_methods = TRUE
    /\ iterations = 0
    /\ OthersIdle

\* What the calls of a caller leave alone.
notCalled == <<gripperVars, monitorVars, cycleVars, elsewhere>>

\* Most calls a caller makes.
MaxCalls == 3

\* The caller makes its next call, within the bound.
Calls(c) ==
    /\ ncalls < MaxCalls
    /\ ncalls' = ncalls + 1
    /\ call' = c

\* Arguments a caller passes as a target or a home point: a list of 6
\* numbers, lists of 5 and of 7 numbers, a tuple of 6 numbers, and a list of
\* 6 entries of which the third is a string.
ValidTarget == degree_to_rad(pick_approach)
Targets == {
    ValidTarget,
    List(<<0, 0, 0, 0, 0>>),
    List(<<0, 0, 0, 0, 0, 0, 0>>),
    Value("tuple", <<0, 0, 0, 0, 0, 0>>, {}),
    Value("list", <<0, 0, 0, 0, 0, 0>>, {3}) }

\* Speed and acceleration a caller passes.
SpeedArgs == {<<MOVE_J_SPEED, MOVE_J_ACCELERATION>>, <<PICK_SPEED, PICK_ACCELERATION>>}

\* robot.connect()
CallConnect ==
    /\ Calls([op |-> "connect"])
    /\ \E outcome \in RobotConnectOutcomes : RobotConnect(outcome)
    /\ UNCHANGED <<poseVars, outputVars, notCalled>>

\* robot.disconnect()
CallDisconnect ==
    /\ Calls([op |-> "disconnect"])
    /\ \E relFail \in ReleaseOutcomes : RobotDisconnect(relFail)
    /\ UNCHANGED <<poseVars, outputVars, notCalled>>

\* robot.move_j(target, speed, acceleration)
CallMoveJ ==
    /\ \E target \in Targets, sa \in SpeedArgs :
          /\ Calls([op |-> "move_j", target |-> target, speed |-> sa[1],
                    acceleration |-> sa[2]])
          /\ RobotMoveJ(target, sa[1], sa[2])
    /\ UNCHANGED <<poseVars, outputVars, notCalled>>

\* robot.move_l(target, speed, acceleration)
CallMoveL ==
    /\ \E target \in Targets, sa \in SpeedArgs :
          /\ Calls([op |-> "move_l", target |-> target, speed |-> sa[1],
                    acceleration |-> sa[2]])
          /\ RobotMoveL(target, sa[1], sa[2])
    /\ UNCHANGED <<poseVars, outputVars, notCalled>>

\* robot.move_home(speed, acceleration)
CallMoveHome ==
    /\ \E sa \in SpeedArgs :
          /\ Calls([op |-> "move_home", speed |-> sa[1], acceleration |-> sa[2]])
          /\ RobotMoveHome(sa[1], sa[2])
    /\ UNCHANGED <<poseVars, outputVars, notCalled>>

\* L = value; robot.home_point = L: the caller keeps the object it assigns.
CallSetHomePoint ==
    /\ \E value \in Targets :
          /\ Calls([op |-> "set_home_point", value |-> value])
          /\ heap' = Append(heap, value)
          /\ RobotSetHomePoint(value, Len(heap) + 1)
    /\ UNCHANGED <<robotVars, outputVars, notCalled>>

\* Indices and values a caller passes to the I/O methods: every index
\* from one below the range to one above it, and analog values below, at the
\* ends of, inside and above [0, 1].
DigitalIndices == -1..(MAX_DIGITAL_INDEX + 1)
AnalogIndices == -1..(MAX_ANALOG_INDEX + 1)
AnalogValues == {-10, 0, CONVEYOR_SPEED, MAX_ANALOG_VALUE, MAX_ANALOG_VALUE + 10}

\* The I/O method whose calls left the record s is done: its exception
\* reaches the caller, else it returns `value`.
IOReturns(s, value) ==
    /\ log' = s.log
    /\ digitalOut' = s.dOut
    /\ analogOut' = s.aOut
    /\ ret' = IF s.exc # "none" THEN s.exc ELSE value
    /\ UNCHANGED <<robotVars, poseVars, notCalled>>

\* A boolean as the caller sees it returned.
Bool(b) == IF b THEN "True" ELSE "False"

\* robot.write_digital_output(index, value)
CallWriteDigitalOutput ==
    \E index \in DigitalIndices, value \in BOOLEAN :
        /\ Calls([op |-> "write_digital_output", index |-> index, value |-> value])
        /\ IOReturns(WriteDigitalOutput(IOState, index, value), "None")

\* robot.read_digital_input(index)
CallReadDigitalInput ==
    \E index \in DigitalIndices, answer \in BOOLEAN :
        /\ Calls([op |-> "read_digital_input", index |-> index])
        /\ IOReturns(ReadDigitalInput(IOState, index, answer), Bool(answer))

\* robot.read_digital_output(index)
CallReadDigitalOutput ==
    \E index \in DigitalIndices, answer \in BOOLEAN :
        /\ Calls([op |-> "read_digital_output", index |-> index])
        /\ IOReturns(ReadDigitalOutput(IOState, index, answer), Bool(answer))

\* robot.write_analog_output(index, value)
CallWriteAnalogOutput ==
    \E index \in AnalogIndices, value \in AnalogValues :
        /\ Calls([op |-> "write_analog_output", index |-> index, value |-> value])
        /\ IOReturns(WriteAnalogOutput(IOState, index, value), "None")

\* robot.read_analog_output(index)
CallReadAnalogOutput ==
    \E index \in AnalogIndices, answer \in {0, CONVEYOR_SPEED} :
        /\ Calls([op |-> "read_analog_output", index |-> index])
        /\ IOReturns(ReadAnalogOutput(IOState, index, answer), "float")

ArmNext ==
    \/ CallConnect
    \/ CallDisconnect
    \/ CallMoveJ
    \/ CallMoveL
    \/ CallMoveHome
    \/ CallSetHomePoint

\* The lifecycle, motion and home point methods of a robot, called in any
\* order.
ArmSpec == CallerInit /\ [][ArmNext]_vars

IONext ==
    \/ CallConnect
    \/ CallDisconnect
    \/ CallWriteDigitalOutput
    \/ CallReadDigitalInput
    \/ CallReadDigitalOutput
    \/ CallWriteAnalogOutput
    \/ CallReadAnalogOutput

\* The lifecycle and I/O methods of a robot, called in any order.
IOSpec == CallerInit /\ [][IONext]_vars

\* What the calls of a gripper's methods leave alone.
notGripper == <<robotVars, poseVars, outputVars, monitorVars, cycleVars, elsewhere>>

\* gripper.connect()
CallGripperConnect ==
    /\ Calls([op |-> "gripper_connect"])
    /\ \E outcome \in GripperConnectOutcomes : GripperConnect(outcome)
    /\ UNCHANGED notGripper

\* gripper.close_connection()
CallCloseConnection ==
    /\ Calls([op |-> "close_connection"])
    /\ GripperCloseConnection
    /\ UNCHANGED notGripper

\* gripper.open_and_wait(); sendOk is whether the send, if one is made,
\* returns.
CallOpenAndWait ==
    /\ \E sendOk \in BOOLEAN :
          /\ Calls([op |-> "open_and_wait", sendOk |-> sendOk])
          /\ GripperOpenAndWait(sendOk)
    /\ UNCHANGED notGripper

\* gripper.close_and_wait()
CallCloseAndWait ==
    /\ \E sendOk \in BOOLEAN :
          /\ Calls([op |-> "close_and_wait", sendOk |-> sendOk])
          /\ GripperCloseAndWait(sendOk)
    /\ UNCHANGED notGripper

\* gripper.activate_and_wait()
CallActivateAndWait ==
    /\ \E sendOk \in BOOLEAN :
          /\ Calls([op |-> "activate_and_wait", sendOk |-> sendOk])
          /\ GripperActivateAndWait(sendOk)
    /\ UNCHANGED notGripper

GripperNext ==
    \/ CallGripperConnect
    \/ CallCloseConnection
    \/ CallOpenAndWait
    \/ CallCloseAndWait
    \/ CallActivateAndWait

\* The methods of a gripper, called in any order.
GripperSpec == CallerInit /\ [][GripperNext]_vars

\* robot.get_current_joints()
CallGetCurrentJoints ==
    /\ \E outcome \in QueryOutcomes :
          /\ Calls([op |-> "get_current_joints", outcome |-> outcome])
          /\ RobotGetCurrentJoints(outcome)
    /\ UNCHANGED <<poseVars, outputVars, notCalled>>

\* robot.get_current_pose()
CallGetCurrentPose ==
    /\ \E outcome \in QueryOutcomes :
          /\ Calls([op |-> "get_current_pose", outcome |-> outcome])
          /\ RobotGetCurrentPose(outcome)
    /\ UNCHANGED <<poseVars, outputVars, notCalled>>

QueryNext ==
    \/ CallConnect
    \/ CallDisconnect
    \/ CallGetCurrentJoints
    \/ CallGetCurrentPose

\* The lifecycle and query methods of a robot, called in any order.
QuerySpec == CallerInit /\ [][QueryNext]_vars

\* robot.home_point, read: the caller keeps the list returned.
CallGetHomePoint ==
    /\ Calls([op |-> "get_home_point"])
    /\ RobotGetHomePoint
    /\ UNCHANGED <<robotVars, outputVars, notCalled>>

\* robot.offset = value
CallSetOffset ==
    /\ \E value \in Targets \cup {None} :
          /\ Calls([op |-> "set_offset", value |-> value])
          /\ RobotSetOffset(value)
    /\ UNCHANGED <<heap, robotVars, outputVars, notCalled>>

\* X[0] += 1 on a list X the caller holds: every reference to that object
\* sees the new entry, self._home_point too if it is that object.
CallerMutates ==
    /\ \E ref \in 1..Len(heap) :
          /\ heap[ref].kind = "list" /\ Len(heap[ref].items) >= 1
          /\ Calls([op |-> "mutate", ref |-> ref])
          /\ heap' = [heap EXCEPT ![ref].items[1] = @ + 1]
          /\ home_point' = IF home_ref = ref
                            THEN [home_point EXCEPT !.items[1] = @ + 1]
                            ELSE home_point
    /\ ret' = "None"
    /\ UNCHANGED <<home_ref, got, offset, log, robotVars, outputVars, notCalled>>

PoseNext ==
    \/ CallSetHomePoint
    \/ CallGetHomePoint
    \/ CallSetOffset
    \/ CallerMutates

\* The home point and offset properties of a robot, read and assigned in
\* any order by a caller that also changes the lists it holds.
PoseSpec == CallerInit /\ [][PoseNext]_vars

-----------------------------------------------------------------------------
(* src/example.py: the pick-and-place loop of its main program. *)

\* Most iterations of the while loop explored.
MaxIterations == 2

\* The statements of the main program from the construction of the gripper
\* (line 44) to the disconnect of line 147, in order; target is the list of
\* degrees of a move.
EXAMPLE_BODY == <<
    [op |-> "activate_and_wait"],
    [op |-> "close_connection"],
    [op |-> "if_robot_connect"],
    [op |-> "while_input"],
    [op |-> "move_home"],
    [op |-> "conveyor_loop"],
    [op |-> "move_j", target |-> pick_approach],
    [op |-> "robot_disconnect"],
    [op |-> "gripper_connect"],
    [op |-> "open_and_wait"],
    [op |-> "close_connection"],
    [op |-> "robot_connect"],
    [op |-> "move_l_slow", target |-> pick_position],
    [op |-> "robot_disconnect"],
    [op |-> "gripper_connect"],
    [op |-> "close_and_wait"],
    [op |-> "close_connection"],
    [op |-> "robot_connect"],
    [op |-> "move_l", target |-> pick_approach],
    [op |-> "move_home"],
    [op |-> "move_j", target |-> place_approach],
    [op |-> "move_l", target |-> place_position],
    [op |-> "robot_disconnect"],
    [op |-> "gripper_connect"],
    [op |-> "open_and_wait"],
    [op |-> "close_connection"],
    [op |-> "robot_connect"],
    [op |-> "move_l", target |-> place_approach],
    [op |-> "move_home"],
    [op |-> "robot_disconnect"] >>

\* The program whose iteration ends with a close of the gripper in place of
\* the connect of line 149.
EXAMPLE_NoReconnect == EXAMPLE_BODY \o <<[op |-> "close_connection"]>>

\* The statements of the main program: the last one of an iteration is the
\* connect of line 149.
EXAMPLE == EXAMPLE_BODY \o <<[op |-> "robot_connect"]>>

\* The index of the while statement (line 53) among the statements.
WHILE == 4

\* The main program is at a statement with one of these names.
ExAt(ops) == cycleRet = "running" /\ pc \in 1..Len(EXAMPLE) /\ EXAMPLE[pc].op \in ops

\* The main program goes on to its next statement, after the last one of an
\* iteration to the while statement.
ExAdvance ==
    /\ pc' = IF pc = Len(EXAMPLE) THEN WHILE ELSE pc + 1
    /\ iterations' = IF pc = Len(EXAMPLE) THEN iterations + 1 ELSE iterations
    /\ UNCHANGED cycleRet

\* The connects of the runs explored: every connect succeeds.
ExampleConnectOutcomes == {"ok"}

\* The program starts: the robot is constructed and given its offset, the
\* gripper is constructed; the Robot class imported may be one without the
\* I/O methods, as the one of src/robot.py is.
ExampleInit ==
    /\ connection = FALSE
    /\ connection_read = FALSE
    /\ connection_io = FALSE
    /\ home_point = HOME_POINT
    /\ offset = TCP_OFFSET
    /\ heap = <<>>
    /\ home_ref = NoRef
    /\ got = NoRef
    /\ socket = NoSocket
    /\ nextSock = 1
    /\ digitalOut = [i \in 0..MAX_DIGITAL_INDEX |-> FALSE]
    /\ analogOut = [i \in 0..MAX_ANALOG_INDEX |-> 0]
    /\ log = <<>>
    /\ ret = "None"
    /\ pc = 1
    /\ cycleRet = "running"
    /\ inMonitor = FALSE
    /\ stop = FALSE
    /\ once = FALSE
    /\ ticks = 0
    /\ monitorRet = "none"
    /\ call = [op |-> "none"]
    /\ ncalls = 0
    /\ io_methods \in BOOLEAN
    /\ iterations = 0
    /\ OthersIdle

\* What no statement of the main program changes.
notExample == <<poseVars, call, ncalls, io_methods, monitorRet, others>>

\* if my_robot.connect(): (line 51); the else branch ends the program.
ExIfRobotConnect ==
    /\ ExAt({"if_robot_connect"})
    /\ \E outcome \in ExampleConnectOutcomes :
          /\ RobotConnect(outcome)
          /\ IF outcome = "ok"
             THEN ExAdvance
             ELSE cycleRet' = "False" /\ UNCHANGED <<pc, iterations>>
    /\ UNCHANGED <<notExample, gripperVars, outputVars, inMonitor, stop, once, ticks>>

\* while input(...) != "q": (line 53); the answer "q" ends the program.
ExWhileInput ==
    /\ ExAt({"while_input"})
    /\ \E answer \in {"", "q"} :
          IF answer = "q"
          THEN cycleRet' = "done" /\ UNCHANGED pc
          ELSE iterations < MaxIterations /\ pc' = pc + 1 /\ UNCHANGED cycleRet
    /\ UNCHANGED <<notExample, robotVars, gripperVars, outputVars, log, ret,
                   inMonitor, stop, once, ticks, iterations>>

\* my_robot.connect() as a statement (lines 95, 117, 140, 149).
ExRobotConnect ==
    /\ ExAt({"robot_connect"})
    /\ \E outcome \in ExampleConnectOutcomes : RobotConnect(outcome)
    /\ ExAdvance
    /\ UNCHANGED <<notExample, gripperVars, outputVars, inMonitor, stop, once, ticks>>

\* my_robot.disconnect(): an exception of a release call ends the program,
\* which catches ValueError only.
ExRobotDisconnect ==
    /\ ExAt({"robot_disconnect"})
    /\ \E relFail \in ReleaseOutcomes :
          /\ RobotDisconnect(relFail)
          /\ IF ReleaseRaises(relFail)
             THEN cycleRet' = "raised" /\ UNCHANGED <<pc, iterations>>
             ELSE ExAdvance
    /\ UNCHANGED <<notExample, gripperVars, outputVars, inMonitor, stop, once, ticks>>

\* my_robot.move_home(), move_j(...), move_l(...) and move_l(..., speed=0.025,
\* acceleration=0.03).
ExMove ==
    /\ ExAt({"move_home", "move_j", "move_l", "move_l_slow"})
    /\ LET st == EXAMPLE[pc] IN
       CASE st.op = "move_home" -> RobotMoveHome(MOVE_HOME_SPEED, MOVE_HOME_ACCELERATION)
         [] st.op = "move_j" ->
              RobotMoveJ(degree_to_rad(st.target), MOVE_J_SPEED, MOVE_J_ACCELERATION)
         [] st.op = "move_l" ->
              RobotMoveL(degree_to_rad(st.target), MOVE_L_SPEED, MOVE_L_ACCELERATION)
         [] st.op = "move_l_slow" ->
              RobotMoveL(degree_to_rad(st.target), PICK_SPEED, PICK_ACCELERATION)
    /\ ExAdvance
    /\ UNCHANGED <<notExample, gripperVars, outputVars, inMonitor, stop, once, ticks>>

\* my_gripper.connect(), the actuation calls and close_connection().
ExGripper ==
    /\ ExAt({"gripper_connect", "activate_and_wait", "open_and_wait",
              "close_and_wait", "close_connection"})
    /\ LET st == EXAMPLE[pc] IN
       CASE st.op = "gripper_connect" ->
              \E outcome \in ExampleConnectOutcomes : GripperConnect(outcome)
         [] st.op = "activate_and_wait" ->
              \E sendOk \in BOOLEAN : GripperActivateAndWait(sendOk)
         [] st.op = "open_and_wait" ->
              \E sendOk \in BOOLEAN : GripperOpenAndWait(sendOk)
         [] st.op = "close_and_wait" ->
              \E sendOk \in BOOLEAN : GripperCloseAndWait(sendOk)
         [] st.op = "close_connection" -> GripperCloseConnection
    /\ ExAdvance
    /\ UNCHANGED <<notExample, robotVars, outputVars, inMonitor, stop, once, ticks>>

\* stop = False; once = False (lines 56-57): the conveyor loop starts.
ExLoopEnter ==
    /\ ExAt({"conveyor_loop"})
    /\ ~inMonitor
    /\ inMonitor' = TRUE
    /\ stop' = FALSE
    /\ once' = FALSE
    /\ ticks' = 0
    /\ UNCHANGED <<notExample, robotVars, gripperVars, outputVars, log, ret,
                   pc, cycleRet, iterations>>

\* One iteration of the conveyor loop (lines 59-72), the statements of
\* run_conveyor_monitor's loop. With a Robot class that has no
\* read_digital_input the first statement raises AttributeError; an
\* exception of the loop ends the program.
ExLoopTick ==
    /\ ExAt({"conveyor_loop"})
    /\ inMonitor /\ ~stop
    /\ ticks < MaxTicks
    /\ \E startVal \in BOOLEAN, endVal \in BOOLEAN :
          LET s == IF io_methods
                   THEN MonitorIteration(startVal, endVal)
                   ELSE [IOState EXCEPT !.exc = "AttributeError"] IN
          /\ log' = s.log
          /\ digitalOut' = s.dOut
          /\ analogOut' = s.aOut
          /\ ticks' = ticks + 1
          /\ IF s.exc # "none"
             THEN /\ ret' = s.exc
                  /\ cycleRet' = "raised"
                  /\ inMonitor' = FALSE
                  /\ UNCHANGED <<stop, once>>
             ELSE /\ ret' = "None"
                  /\ once' = (once \/ startVal)
                  /\ stop' = endVal
                  /\ UNCHANGED <<cycleRet, inMonitor>>
    /\ UNCHANGED <<notExample, robotVars, gripperVars, pc, iterations>>

\* The conveyor loop has ended.
ExLoopExit ==
    /\ ExAt({"conveyor_loop"})
    /\ inMonitor /\ stop
    /\ inMonitor' = FALSE
    /\ ExAdvance
    /\ UNCHANGED <<notExample, robotVars, gripperVars, outputVars, log, ret,
                   stop, once, ticks>>

ExampleNext ==
    \/ ExIfRobotConnect
    \/ ExWhileInput
    \/ ExRobotConnect
    \/ ExRobotDisconnect
    \/ ExMove
    \/ ExGripper
    \/ ExLoopEnter
    \/ ExLoopTick
    \/ ExLoopExit

\* The main program of example.py in the runs in which every connect
\* succeeds.
ExampleSpec == ExampleInit /\ [][ExampleNext]_vars

-----------------------------------------------------------------------------
(* src/main.py: the voice-controlled joint movement and its two threads. *)

\* Most moveJ commands explored.
MaxMoves == 3

\* What voice_input() returns: nothing understood, or a sentence with one of
\* the two words.
VoiceCommands == {"", "start", "stop"}

\* No object of the device classes exists and no other program runs.
DevicesIdle ==
    /\ connection = FALSE
    /\ connection_read = FALSE
    /\ connection_io = FALSE
    /\ home_point = HOME_POINT
    /\ offset = None
    /\ heap = <<>>
    /\ home_ref = NoRef
    /\ got = NoRef
    /\ socket = NoSocket
    /\ nextSock = 1
    /\ digitalOut = [i \in 0..MAX_DIGITAL_INDEX |-> FALSE]
    /\ analogOut = [i \in 0..MAX_ANALOG_INDEX |-> 0]
    /\ log = <<>>
    /\ ret = "None"
    /\ pc = 0
    /\ cycleRet = "idle"
    /\ inMonitor = FALSE
    /\ stop = FALSE
    /\ once = FALSE
    /\ ticks = 0
    /\ monitorRet = "none"
    /\ call = [op |-> "none"]
    /\ ncalls = 0
    /\ io_methods = TRUE
    /\ iterations = 0

\* What main.py leaves alone.
notMain == <<robotVars, poseVars, gripperVars, outputVars, log, ret,
             monitorVars, cycleVars, call, ncalls, exampleVars, repoVars,
             apiVars>>

\* The two threads have been started (lines 73-74); stop_event is clear.
MainInit ==
    /\ DevicesIdle
    /\ stop_event = FALSE
    /\ listener = "while"
    /\ mover = "while"
    /\ commands = <<>>
    /\ joint_angles = 0
    /\ RepoIdle
    /\ ApiIdle

\* cekani_na_vstup: while not stop_event.is_set(): (line 48).
ListenerWhile ==
    /\ listener = "while"
    /\ listener' = IF stop_event THEN "done" ELSE "voice_input"
    /\ UNCHANGED <<stop_event, mover, commands, joint_angles, notMain>>

\* cekani_na_vstup: command = voice_input(); if "stop" in command: (49-50).
ListenerVoiceInput ==
    /\ listener = "voice_input"
    /\ \E command \in VoiceCommands :
          listener' = IF command = "stop" THEN "stopJ" ELSE "while"
    /\ UNCHANGED <<stop_event, mover, commands, joint_angles, notMain>>

\* cekani_na_vstup: rtde_c.stopJ() (line 52).
ListenerStopJ ==
    /\ listener = "stopJ"
    /\ commands' = Append(commands, [op |-> "stopJ"])
    /\ listener' = "set"
    /\ UNCHANGED <<stop_event, mover, joint_angles, notMain>>

\* cekani_na_vstup: stop_event.set() (line 53).
ListenerSet ==
    /\ listener = "set"
    /\ stop_event' = TRUE
    /\ listener' = "while"
    /\ UNCHANGED <<mover, commands, joint_angles, notMain>>

\* pohyb_kloubu: the outer while not stop_event.is_set(): (line 58).
MoverWhile ==
    /\ mover = "while"
    /\ mover' = IF stop_event THEN "done" ELSE "voice_input"
    /\ UNCHANGED <<stop_event, listener, commands, joint_angles, notMain>>

\* pohyb_kloubu: command = voice_input(); if "start" in command:
\* joint_angles = rtde_r.getActualQ() (lines 59-62).
MoverVoiceInput ==
    /\ mover = "voice_input"
    /\ \E command \in VoiceCommands :
          IF command = "start"
          THEN mover' = "inner_while" /\ joint_angles' = 0
          ELSE mover' = "while" /\ UNCHANGED joint_angles
    /\ UNCHANGED <<stop_event, listener, commands, notMain>>

\* pohyb_kloubu: the inner while not stop_event.is_set(): (line 64).
MoverInnerWhile ==
    /\ mover = "inner_while"
    /\ mover' = IF stop_event THEN "while" ELSE "moveJ"
    /\ UNCHANGED <<stop_event, listener, commands, joint_angles, notMain>>

\* pohyb_kloubu: joint_angles[5] += math.pi; rtde_c.moveJ(...,
\* asynchronous=True); time.sleep(0.1) (lines 65-68).
MoverMoveJ ==
    /\ mover = "moveJ"
    /\ Len(SelectSeq(commands, LAMBDA c : c.op = "moveJ")) < MaxMoves
    /\ joint_angles' = joint_angles + 1
    /\ commands' = Append(commands, [op |-> "moveJ", target |-> joint_angles + 1])
    /\ mover' = "inner_while"
    /\ UNCHANGED <<stop_event, listener, notMain>>

\* Both threads are joined (lines 76-77); rtde_c.disconnect() (line 79).
MainDisconnect ==
    /\ listener = "done" /\ mover = "done"
    /\ commands' = Append(commands, [op |-> "disconnect"])
    /\ listener' = "joined"
    /\ mover' = "joined"
    /\ UNCHANGED <<stop_event, joint_angles, notMain>>

MainNext ==
    \/ ListenerWhile
    \/ ListenerVoiceInput
    \/ ListenerStopJ
    \/ ListenerSet
    \/ MoverWhile
    \/ MoverVoiceInput
    \/ MoverInnerWhile
    \/ MoverMoveJ
    \/ MainDisconnect

\* main.py from the start of its two threads, under every interleaving of
\* their statements.
MainSpec == MainInit /\ [][MainNext]_vars

-----------------------------------------------------------------------------
(* src/backend/app/repository/llm_connection_repository.py: the methods   *)
(* that write is_active. A call is a sequence of steps, one for each      *)
(* awaited database operation; every async with get_db_session() block    *)
(* has a session of its own, whose commit writes the attributes that      *)
(* differ from the values the session loaded.                              *)

\* Most repository calls begun in a run.
MaxRequests == 3

\* The ids of the stored rows with is_active true.
ActiveIds == {i \in Ids : rows[i].stored /\ rows[i].is_active}

\* The stored rows.
StoredIds == {i \in Ids : rows[i].stored}

\* The least id of a non-empty set: ids are given in the order of creation,
\* so the row with the least id is the first one by created_at.
First(S) == CHOOSE i \in S : \A j \in S : i <= j

\* What the backend leaves alone.
notRepo == <<robotVars, poseVars, gripperVars, outputVars, log, ret,
             monitorVars, cycleVars, call, ncalls, exampleVars, mainVars,
             apiVars>>

\* The table holds up to two rows, at most one of them active, and no call
\* is in progress.
RepoInit ==
    /\ DevicesIdle
    /\ MainIdle
    /\ \E n \in 0..2 : \E a \in 0..n :
          /\ rows = [i \in Ids |-> [stored |-> i <= n, is_active |-> i = a]]
          /\ nextId = n + 1
    /\ requests = [r \in Slots |-> IdleRequest]
    /\ served = 0
    /\ ApiIdle

\* The call of slot r goes to position p.
Goto(r, p) == requests' = [requests EXCEPT ![r].pc = p]

\* The call of slot r returns v.
Return(r, v) == requests' = [requests EXCEPT ![r].pc = "done", ![r].ret = v]

\* The methods a request calls, with the position of their first awaited
\* operation.
FirstStep ==
    [create_connection |-> "create",
     update_connection |-> "get",
     activate_connection |-> "deactivate",
     delete_connection |-> "get",
     activate_default_connection |-> "select_active"]

\* A call of a method of ops begins in slot r: create_connection with
\* is_active true or false, update_connection with or without an is_active
\* keyword, the calls with an id with any id, stored or not.
Begin(r, ops) ==
    /\ requests[r].pc \in {"idle", "done"}
    /\ served < MaxRequests
    /\ \E op \in ops, id \in Ids, kw \in {"absent", "True", "False"} :
          /\ op = "create_connection" =>
                /\ id = First(Ids)
                /\ kw # "absent"
                /\ nextId + Cardinality({q \in Slots :
                        /\ requests[q].op = "create_connection"
                        /\ requests[q].pc \notin {"idle", "done"}}) <= MaxRows
          /\ op \in {"activate_connection", "delete_connection",
                      "activate_default_connection"} => kw = "absent"
          /\ op = "activate_default_connection" => id = First(Ids)
          /\ requests' = [requests EXCEPT ![r] =
                [op |-> op,
                 id |-> IF op \in {"create_connection", "activate_default_connection"}
                        THEN 0 ELSE id,
                 kw |-> kw, pc |-> FirstStep[op], sel |-> {}, target |-> 0,
                 loaded |-> FALSE, ret |-> "none", before |-> rows]]
    /\ served' = served + 1
    /\ UNCHANGED <<rows, nextId, notRepo>>

\* create_connection without the call of deactivate_all_connections.
CreateConnection_NoDeactivate(r) ==
    /\ requests[r].pc = "create"
    /\ Goto(r, "save")
    /\ UNCHANGED <<rows, nextId, served, notRepo>>

\* create_connection up to its first await (lines 60-64): with is_active it
\* calls deactivate_all_connections().
CreateConnection(r) ==
    /\ requests[r].pc = "create"
    /\ Goto(r, IF requests[r].kw = "True" THEN "deactivate" ELSE "save")
    /\ UNCHANGED <<rows, nextId, served, notRepo>>

\* create_connection: return await self.save(connection) (lines 67-81); the
\* new row has the is_active given.
Save(r) ==
    /\ requests[r].pc = "save"
    /\ nextId \in Ids
    /\ rows' = [rows EXCEPT ![nextId] =
                   [stored |-> TRUE, is_active |-> requests[r].kw = "True"]]
    /\ nextId' = nextId + 1
    /\ Return(r, "connection")
    /\ UNCHANGED <<served, notRepo>>

\* deactivate_all_connections: the query for the active rows, without the
\* row of exclude_id if one is given (lines 146-154).
DeactivateSelect(r) ==
    /\ requests[r].pc = "deactivate"
    /\ requests' = [requests EXCEPT
          ![r].sel = ActiveIds \ {requests[r].id},
          ![r].pc = "deactivate_commit"]
    /\ UNCHANGED <<rows, nextId, served, notRepo>>

\* deactivate_all_connections: the rows of the query are set inactive and
\* committed (lines 157-160); the caller goes on.
DeactivateCommit(r) ==
    /\ requests[r].pc = "deactivate_commit"
    /\ rows' = [i \in Ids |->
                   IF i \in requests[r].sel /\ rows[i].stored
                   THEN [rows[i] EXCEPT !.is_active = FALSE]
                   ELSE rows[i]]
    /\ Goto(r, CASE requests[r].op = "create_connection" -> "save"
                 [] requests[r].op = "update_connection" -> "commit"
                 [] requests[r].op = "activate_connection" -> "get")
    /\ UNCHANGED <<nextId, served, notRepo>>

\* session.get(LLMConnection, connection_id) of update_connection (line 90),
\* delete_connection (114) and activate_connection (172); without a row the
\* method returns. update_connection sets the attributes given on the
\* object loaded and, with a true is_active, calls
\* deactivate_all_connections(exclude_id=connection_id) (lines 93-101).
Get(r) ==
    /\ requests[r].pc = "get"
    /\ LET q == requests[r] IN
       IF ~rows[q.id].stored
       THEN Return(r, IF q.op = "update_connection" THEN "None" ELSE "False")
       ELSE requests' = [requests EXCEPT
              ![r].target = q.id,
              ![r].loaded = rows[q.id].is_active,
              ![r].pc = CASE q.op = "delete_connection" -> "delete"
                          [] q.op = "activate_connection" -> "commit"
                          [] q.op = "update_connection" ->
                               IF q.kw = "True" THEN "deactivate" ELSE "commit"]
    /\ UNCHANGED <<rows, nextId, served, notRepo>>

\* The value of is_active the session of slot r holds for its object.
Pending(q) ==
    CASE q.op = "update_connection" /\ q.kw = "absent" -> q.loaded
      [] q.op = "update_connection" -> q.kw = "True"
      [] OTHER -> TRUE

\* session.commit() of update_connection (line 104), activate_connection
\* (175) and activate_default_connection (202): is_active is written when
\* it differs from the value loaded.
Commit(r) ==
    /\ requests[r].pc = "commit"
    /\ LET q == requests[r] IN
       /\ rows[q.target].stored
       /\ rows' = IF Pending(q) # q.loaded
                  THEN [rows EXCEPT ![q.target].is_active = Pending(q)]
                  ELSE rows
       /\ Return(r, IF q.op \in {"update_connection", "activate_default_connection"}
                     THEN "connection" ELSE "True")
    /\ UNCHANGED <<nextId, served, notRepo>>

\* delete_connection: the row is deleted and the deletion committed; if it
\* was active, activate_default_connection() is called (lines 117-124).
Delete(r) ==
    /\ requests[r].pc = "delete"
    /\ LET q == requests[r] IN
       /\ rows[q.target].stored
       /\ rows' = [rows EXCEPT ![q.target] = [stored |-> FALSE, is_active |-> FALSE]]
       /\ IF q.loaded THEN Goto(r, "select_active") ELSE Return(r, "True")
    /\ UNCHANGED <<nextId, served, notRepo>>

\* activate_default_connection: the query for an active row; if there is
\* one it is returned (lines 185-190).
SelectActive(r) ==
    /\ requests[r].pc = "select_active"
    /\ IF ActiveIds # {}
       THEN Return(r, IF requests[r].op = "delete_connection" THEN "True" ELSE "connection")
       ELSE Goto(r, "select_first")
    /\ UNCHANGED <<rows, nextId, served, notRepo>>

\* activate_default_connection: the query for the first row by created_at,
\* which is set active (lines 193-201); without rows None is returned.
SelectFirst(r) ==
    /\ requests[r].pc = "select_first"
    /\ IF StoredIds = {}
       THEN Return(r, IF requests[r].op = "delete_connection" THEN "True" ELSE "None")
       ELSE requests' = [requests EXCEPT
              ![r].target = First(StoredIds),
              ![r].loaded = rows[First(StoredIds)].is_active,
              ![r].pc = IF requests[r].op = "delete_connection"
                        THEN "commit_default" ELSE "commit"]
    /\ UNCHANGED <<rows, nextId, served, notRepo>>

\* session.commit() of the activate_default_connection that
\* delete_connection called (line 202); delete_connection returns True.
CommitDefault(r) ==
    /\ requests[r].pc = "commit_default"
    /\ LET q == requests[r] IN
       /\ rows[q.target].stored
       /\ rows' = IF ~q.loaded
                  THEN [rows EXCEPT ![q.target].is_active = TRUE]
                  ELSE rows
       /\ Return(r, "True")
    /\ UNCHANGED <<nextId, served, notRepo>>

\* A step of the call of slot r.
Step(r) ==
    \/ CreateConnection(r)
    \/ Save(r)
    \/ DeactivateSelect(r)
    \/ DeactivateCommit(r)
    \/ Get(r)
    \/ Commit(r)
    \/ Delete(r)
    \/ SelectActive(r)
    \/ SelectFirst(r)
    \/ CommitDefault(r)

\* No call is in progress.
Quiescent == \A r \in Slots : requests[r].pc \in {"idle", "done"}

\* The methods of the repository that write is_active.
RepoMethods ==
    {"create_connection", "update_connection", "activate_connection",
     "delete_connection", "activate_default_connection"}

\* The methods whose calls run concurrently.
ConcurrentMethods ==
    {"create_connection", "update_connection", "activate_connection"}

\* A call begins when no call is in progress.
BeginAlone == Quiescent /\ Begin(First(Slots), RepoMethods)

RepoNext ==
    \/ BeginAlone
    \/ Step(First(Slots))

\* The calls of the repository executed one at a time.
RepoSpec == RepoInit /\ [][RepoNext]_vars

\* A call begins in a free slot, whatever the other slots do.
BeginConcurrent == \E r \in Slots : Begin(r, ConcurrentMethods)

\* A call in progress makes a step.
StepConcurrent ==
    \E r \in Slots :
        \/ CreateConnection(r)
        \/ Save(r)
        \/ DeactivateSelect(r)
        \/ DeactivateCommit(r)
        \/ Get(r)
        \/ Commit(r)

ConcurrentNext ==
    \/ BeginConcurrent
    \/ StepConcurrent

\* Requests handled concurrently by the event loop: their calls interleave
\* at the awaited operations.
ConcurrentSpec == RepoInit /\ [][ConcurrentNext]_vars

-----------------------------------------------------------------------------
(* src/api.py: detection_queue between the camera worker thread and the   *)
(* /detections requests. The methods of queue.Queue run under the queue's *)
(* mutex, so each call of one is one step.                                 *)

\* Most results the worker builds in a run.
MaxFrames == 3

\* queue.Queue(maxsize=1) (line 54).
MAXSIZE == 1

\* The n-th result of the worker, and the item of an error message.
Result(n) == [kind |-> "result", n |-> n]
ErrorItem == [kind |-> "error", n |-> 0]

\* Queue.put_nowait(item) raises queue.Full on a queue q with maxsize items.
Full(q) == Len(q) >= MAXSIZE

\* What the detection API leaves alone.
notApi == <<robotVars, poseVars, gripperVars, outputVars, log, ret,
            monitorVars, cycleVars, call, ncalls, exampleVars, mainVars,
            repoVars>>

\* startup_event has started the worker thread (lines 272-274), which has
\* opened the device and is at its loop; the queue is empty.
ApiInit ==
    /\ DevicesIdle
    /\ MainIdle
    /\ RepoIdle
    /\ detection_queue = <<>>
    /\ is_running = TRUE
    /\ worker = "while"
    /\ frames = 0
    /\ queue_item = NoItem
    /\ discarded = "none"
    /\ queued_item = NoItem

\* camera_worker: while is_running: with a frame the next result is built
\* (lines 203-229), without one the iteration only sleeps (line 240).
WorkerWhile ==
    /\ worker = "while"
    /\ IF ~is_running
       THEN worker' = "finished" /\ UNCHANGED <<frames, queue_item, discarded>>
       ELSE \/ /\ frames < MaxFrames
               /\ frames' = frames + 1
               /\ queue_item' = Result(frames + 1)
               /\ discarded' = "none"
               /\ worker' = "put"
            \/ UNCHANGED <<worker, frames, queue_item, discarded>>
    /\ UNCHANGED <<detection_queue, is_running, queued_item, notApi>>

\* camera_worker: detection_queue.put_nowait(queue_item) (lines 231-233).
WorkerPut ==
    /\ worker = "put"
    /\ IF Full(detection_queue)
       THEN worker' = "discard" /\ UNCHANGED detection_queue
       ELSE worker' = "while" /\ detection_queue' = Append(detection_queue, queue_item)
    /\ UNCHANGED <<is_running, frames, queue_item, discarded, queued_item, notApi>>

\* The worker that does not take the old item out after queue.Full.
WorkerDiscard_KeepsOld ==
    /\ worker = "discard"
    /\ discarded' = "Empty"
    /\ worker' = "put_again"
    /\ UNCHANGED <<detection_queue, is_running, frames, queue_item, queued_item, notApi>>

\* camera_worker: after queue.Full, detection_queue.get_nowait() with
\* queue.Empty passed over (lines 234-237).
WorkerDiscard ==
    /\ worker = "discard"
    /\ IF detection_queue = <<>>
       THEN discarded' = "Empty" /\ UNCHANGED detection_queue
       ELSE discarded' = "item" /\ detection_queue' = Tail(detection_queue)
    /\ worker' = "put_again"
    /\ UNCHANGED <<is_running, frames, queue_item, queued_item, notApi>>

\* camera_worker: the second detection_queue.put_nowait(queue_item) (line
\* 238), outside any handler of queue.Full: a queue.Full it raises leaves
\* the loop for the except Exception clause, whose put of the error item
\* passes over queue.Full (lines 248-253).
WorkerPutAgain ==
    /\ worker = "put_again"
    /\ IF Full(detection_queue)
       THEN worker' = "raised" /\ UNCHANGED detection_queue
       ELSE worker' = "while" /\ detection_queue' = Append(detection_queue, queue_item)
    /\ UNCHANGED <<is_running, frames, queue_item, discarded, queued_item, notApi>>

\* camera_worker: a RuntimeError of the device in the loop; the error item
\* is put if the queue has room (lines 242-247) and the thread ends.
WorkerRuntimeError ==
    /\ worker = "while"
    /\ is_running
    /\ detection_queue' = IF Full(detection_queue)
                          THEN detection_queue
                          ELSE Append(detection_queue, ErrorItem)
    /\ worker' = "finished"
    /\ UNCHANGED <<is_running, frames, queue_item, discarded, queued_item, notApi>>

\* get_latest_detections: with the worker thread alive,
\* detection_queue.get_nowait() (lines 295-305); queue.Empty becomes the
\* answer 204 (line 372).
GetLatestDetections ==
    /\ worker \notin {"none", "finished", "raised"}
    /\ IF detection_queue = <<>>
       THEN queued_item' = [kind |-> "Empty", n |-> 0] /\ UNCHANGED detection_queue
       ELSE queued_item' = Head(detection_queue) /\ detection_queue' = Tail(detection_queue)
    /\ UNCHANGED <<is_running, worker, frames, queue_item, discarded, notApi>>

\* shutdown_event: is_running = False (line 282).
ShutdownEvent ==
    /\ is_running
    /\ is_running' = FALSE
    /\ UNCHANGED <<detection_queue, worker, frames, queue_item, discarded,
                   queued_item, notApi>>

ApiNext ==
    \/ WorkerWhile
    \/ WorkerPut
    \/ WorkerDiscard
    \/ WorkerPutAgain
    \/ WorkerRuntimeError
    \/ GetLatestDetections
    \/ ShutdownEvent

\* The worker thread and the requests of the detection API under every
\* interleaving of the calls they make on the queue.
ApiSpec == ApiInit /\ [][ApiNext]_vars

\* The cycle runs on one thread that nothing suspends: a statement that can
\* be executed is executed.
LiveSpec == Spec /\ WF_vars(Next)

-----------------------------------------------------------------------------
(* Vocabulary of the properties. *)

\* The arm is Connected / Disconnected as Robot.__str__ reports it, and the
\* state in which every handle of the arm is unset.
ArmConnected == connection
ArmHandlesUnset == ~connection /\ ~connection_read /\ ~connection_io

\* Kinds of entries of the log.
IsConnect(e) == e.op \in {"rtde_connect", "sock_connect"}
IsFailedConnect(e) == IsConnect(e) /\ ~e.ok
IsMotion(e) == e.op \in {"moveJ", "moveL_FK"}
IsActuation(e) == e.op = "send"
IsIO(e) == e.op \in {"getDigitalInState", "setStandardDigitalOut",
                     "setAnalogOutputVoltage"}
IsCommand(e) == IsMotion(e) \/ IsActuation(e) \/ IsIO(e)

\* Some connect call of the run has failed.
SomeConnectFailed == \E i \in 1..Len(log) : IsFailedConnect(log[i])

\* The entries the last step added to the log.
Added == SubSeq(log', Len(log) + 1, Len(log'))

\* Socket ids that a successful connect opened, and that close() closed.
OpenedSockets ==
    {log[i].sock : i \in {j \in 1..Len(log) : log[j].op = "sock_connect" /\ log[j].ok}}
ClosedSockets ==
    {log[i].sock : i \in {j \in 1..Len(log) : log[j].op = "sock_close"}}

-----------------------------------------------------------------------------
(* Properties of run_pick_and_place_cycle. *)

\* C1: at every point of run_pick_and_place_cycle the arm and the gripper
\* are never both connected: while the gripper holds a socket the arm's
\* handles are unset, and while the arm is Connected the gripper holds none.
C1_NeverBothConnected ==
    /\ socket # NoSocket => ArmHandlesUnset
    /\ ArmConnected => socket = NoSocket

\* C2: run_pick_and_place_cycle returns False whenever a connect call made
\* during the cycle failed, an initial connect or a later reconnect: it
\* never returns True after a failed connect.
C2_FailedConnectReturnsFalse ==
    cycleRet = "True" => ~SomeConnectFailed

\* C3: after the first connect call that fails, no further arm motion
\* command and no further gripper actuation command is issued in the run.
C3_NoCommandAfterFailedConnect ==
    \A i \in 1..Len(log) : \A j \in 1..Len(log) :
        (i < j /\ IsFailedConnect(log[i])) =>
            ~(IsMotion(log[j]) \/ IsActuation(log[j]))

\* C4: if the arm's connect fails at the start, the function returns False,
\* the gripper's connect is never attempted and no motion, I/O or gripper
\* command is sent: the failed connect stays the only call ever made.
C4_ArmConnectFails ==
    (Len(log) >= 1 /\ IsFailedConnect(log[1])) =>
        /\ cycleRet = "False"
        /\ log = <<[op |-> "rtde_connect", ok |-> FALSE]>>
        /\ socket = NoSocket
        /\ nextSock = 1

\* A run in which the arm's first connect failed and the function returned.
C4_Witness ==
    /\ Len(log) >= 1 /\ IsFailedConnect(log[1])
    /\ cycleRet = "False"

\* C5: if the arm connects and the gripper's initial connect fails, the
\* function returns False without any motion, I/O or gripper command, and
\* the arm is left Connected with its three handles set.
C5_GripperConnectFails ==
    (Len(log) >= 2 /\ ~IsFailedConnect(log[1]) /\ IsFailedConnect(log[2])) =>
        /\ cycleRet = "False"
        /\ Len(log) = 2
        /\ log[1] = [op |-> "rtde_connect", ok |-> TRUE]
        /\ log[2].op = "sock_connect"
        /\ connection /\ connection_read /\ connection_io
        /\ socket = NoSocket

\* A run in which the arm connected, the gripper's initial connect failed
\* and the function returned with the arm Connected.
C5_Witness ==
    /\ Len(log) = 2 /\ log[1].op = "rtde_connect" /\ log[1].ok
    /\ IsFailedConnect(log[2])
    /\ cycleRet = "False" /\ ArmConnected

\* The log's motion, I/O and gripper commands, in order, each without the
\* socket it was sent on.
Commands ==
    LET sel == SelectSeq(log, IsCommand) IN
    [i \in 1..Len(sel) |->
        IF sel[i].op = "send"
        THEN [op |-> "send", payload |-> sel[i].payload]
        ELSE sel[i]]

\* The waypoints in milli-radians, and the commands C6 names.
HomeRad == List(<<0, -1571, 0, -1571, 0, 0>>)
PickApproachRad == List(<<-386, -1734, -1521, -1407, 1563, 5900>>)
PickPositionRad == List(<<-385, -1805, -1750, -1107, 1564, 5898>>)
PlaceApproachRad == List(<<525, -1555, 1756, -1783, -1611, 530>>)
PlacePositionRad == List(<<525, -1502, 1908, -1988, -1610, 529>>)
JointMove(t, sp, ac) ==
    [op |-> "moveJ", target |-> t, speed |-> sp, acceleration |-> ac]
LinearMove(t, sp, ac) ==
    [op |-> "moveL_FK", target |-> t, speed |-> sp, acceleration |-> ac]
JointMoveHome == JointMove(HomeRad, 500, 1000)
GripperOpen ==
    [op |-> "send",
     payload |-> "def process():\n$ 3 \"rq_open_and_wait()\"\n   rq_open_and_wait()\nend\n"]
GripperClose ==
    [op |-> "send",
     payload |-> "def process():\n$ 3 \"rq_close_and_wait()\"\n   rq_close_and_wait()\nend\n"]

\* The commands C6 lists after the conveyor monitor.
CommandsAfterMonitor == <<
    JointMove(PickApproachRad, 400, 500),
    GripperOpen,
    LinearMove(PickPositionRad, 25, 30),
    GripperClose,
    LinearMove(PickApproachRad, 100, 200),
    JointMoveHome,
    JointMove(PlaceApproachRad, 400, 500),
    LinearMove(PlacePositionRad, 100, 200),
    GripperOpen,
    LinearMove(PlaceApproachRad, 100, 200),
    JointMoveHome >>

C7_ActuationWhileArmDisconnected ==
    [][\A i \in 1..Len(Added) :
          /\ Added[i].op \in {"send", "sock_close"} => ArmHandlesUnset
          /\ (Added[i].op = "sock_connect" /\ At("gripper_connect")) => ArmHandlesUnset
          /\ (Added[i].op = "rtde_connect" /\ At("robot_connect")) => socket = NoSocket]_vars

\* A gripper actuation command has just been sent with the arm Disconnected.
C7_Witness ==
    /\ Len(log) >= 1 /\ log[Len(log)].op = "send"
    /\ ArmHandlesUnset

\* C8: every gripper handle created by connect() during the cycle is
\* destroyed by close_connection() before the function returns: a socket
\* that was opened is closed or still held, no connect() having overwritten
\* it, and at the return every socket opened has been closed.
C8_EveryHandleClosed ==
    /\ OpenedSockets \subseteq (ClosedSockets \cup {socket})
    /\ cycleRet \in {"True", "False"} => OpenedSockets \subseteq ClosedSockets

-----------------------------------------------------------------------------
(* Properties of run_conveyor_monitor. *)

\* The monitor's I/O calls so far.
MonitorIO == SelectSeq(log, IsIO)

\* Some read of the start sensor answered True.
StartAsserted ==
    \E i \in 1..Len(MonitorIO) :
        /\ MonitorIO[i].op = "getDigitalInState"
        /\ MonitorIO[i].index = 3
        /\ MonitorIO[i].value

\* Some read of the end sensor answered True.
EndAsserted ==
    \E i \in 1..Len(MonitorIO) :
        /\ MonitorIO[i].op = "getDigitalInState"
        /\ MonitorIO[i].index = 2
        /\ MonitorIO[i].value

\* The writes to the conveyor-enable output and to the conveyor speed.
EnableWrites ==
    SelectSeq(MonitorIO, LAMBDA e : e.op = "setStandardDigitalOut" /\ e.index = 2)
SpeedWrites ==
    SelectSeq(MonitorIO, LAMBDA e : e.op = "setAnalogOutputVoltage" /\ e.index = 1)

\* C9: while the start sensor has not been asserted on any tick up to and
\* including the first tick on which the end sensor is asserted, the monitor
\* never writes enable True; on that end tick it writes enable False and
\* speed 0.0, nothing after them, and then returns True.
C9_EndWithoutStart ==
    ~StartAsserted =>
        /\ \A i \in 1..Len(EnableWrites) : ~EnableWrites[i].value
        /\ EndAsserted =>
              LET n == Len(MonitorIO) IN
              /\ n >= 3
              /\ MonitorIO[n - 2] =
                    [op |-> "getDigitalInState", index |-> 2, value |-> TRUE]
              /\ MonitorIO[n - 1] =
                    [op |-> "setStandardDigitalOut", index |-> 2, value |-> FALSE]
              /\ MonitorIO[n] =
                    [op |-> "setAnalogOutputVoltage", index |-> 1, value |-> 0]
              /\ \/ inMonitor /\ stop /\ ENABLED MonitorReturn
                 \/ monitorRet = "True"

\* The monitor returned True after more than one tick, the start sensor
\* never having been asserted.
C9_Witness ==
    /\ monitorRet = "True" /\ ~StartAsserted
    /\ ticks >= 2

\* C10: whenever run_conveyor_monitor has returned True, the last value it
\* wrote to the conveyor-enable output is False and the last speed it wrote
\* is 0.0, whatever the sensors read, also on a tick on which both are
\* asserted.
C10_StoppedOnReturn ==
    monitorRet = "True" =>
        /\ Len(EnableWrites) >= 1
        /\ ~EnableWrites[Len(EnableWrites)].value
        /\ Len(SpeedWrites) >= 1
        /\ SpeedWrites[Len(SpeedWrites)].value = 0

\* The monitor returned True after one tick on which both sensors were
\* asserted: enable was written True and then False.
C10_Witness ==
    /\ monitorRet = "True" /\ ticks = 1
    /\ StartAsserted
    /\ Len(EnableWrites) = 2 /\ EnableWrites[1].value

\* C11: on a Connected arm run_conveyor_monitor terminates, returning True,
\* if and only if the end sensor reads asserted on some poll: it has no
\* other exit, it has not returned while the end sensor was never asserted,
\* and once a poll of the end sensor reads asserted it returns True.
C11_TerminatesIffEndAsserted ==
    /\ [](monitorRet \in {"none", "True"})
    /\ [](monitorRet = "True" => EndAsserted)
    /\ []((~EndAsserted /\ Len(MonitorIO) > 0) => (inMonitor /\ ~stop))
    /\ (EndAsserted ~> monitorRet = "True")

\* The end sensor was never asserted and the monitor is still polling after
\* every tick explored.
C11_Witness ==
    /\ inMonitor /\ ~EndAsserted
    /\ ticks = MaxTicks

-----------------------------------------------------------------------------
(* Properties of the Robot class. *)

\* The step is a call of one of the methods named.
Called(ops) == ncalls' # ncalls /\ call'.op \in ops

\* What a method that raises leaves in ret.
Exceptions == {"TypeError", "ValueError", "AttributeError", "Exception"}

\* The I/O methods, and a call of one of them whose arguments are in range.
DigitalMethods == {"write_digital_output", "read_digital_input", "read_digital_output"}
AnalogMethods == {"write_analog_output", "read_analog_output"}
InRange(c) ==
    /\ c.op \in DigitalMethods => c.index \in 0..7
    /\ c.op \in AnalogMethods => c.index \in 0..1
    /\ c.op = "write_analog_output" => c.value \in 0..1000

\* C12: an I/O operation of the arm called with in-range arguments while the
\* arm is Disconnected is a no-op: it raises no error and makes no driver
\* call.
C12_IOWhileDisconnected ==
    [][(Called(DigitalMethods \cup AnalogMethods) /\ ~connection /\ InRange(call')) =>
          (ret' \notin Exceptions /\ log' = log)]_vars

\* C13: move_j, move_l or move_home called while the arm is Disconnected
\* sends no motion command, raises no error and leaves the connection state,
\* the home point and the offset unchanged.
C13_MoveWhileDisconnected ==
    [][(Called({"move_j", "move_l", "move_home"}) /\ ~connection) =>
          /\ log' = log
          /\ ret' = "None"
          /\ UNCHANGED <<connection, connection_read, connection_io>>
          /\ UNCHANGED <<home_point, offset>>]_vars

\* move_j has just been called with a list of 6 numbers on an arm that had
\* been connected and disconnected before.
C13_Witness ==
    /\ call.op = "move_j" /\ call.target = ValidTarget
    /\ ~connection
    /\ Len(log) >= 1 /\ log[1].op = "rtde_connect" /\ log[1].ok

\* C14: after any sequence of connect() and disconnect() calls, each of the
\* three constructions free to succeed or fail, the control, receive and IO
\* handles are all set or all unset; connect() returns True exactly when it
\* leaves them set and False exactly when it leaves them unset.
C14_HandlesAllOrNone ==
    /\ connection = connection_read
    /\ connection_read = connection_io
    /\ call.op = "connect" =>
          /\ ret \in {"True", "False"}
          /\ ret = "True" <=> (connection /\ connection_read /\ connection_io)
          /\ ret = "False" <=> (~connection /\ ~connection_read /\ ~connection_io)

\* connect() has just failed on an arm that the connect() before it had
\* connected.
C14_Witness ==
    /\ call.op = "connect" /\ ret = "False"
    /\ log = <<[op |-> "rtde_connect", ok |-> TRUE],
               [op |-> "rtde_connect", ok |-> FALSE]>>

\* C15: a newly constructed arm is Disconnected; it becomes Connected only
\* by a connect() that succeeds; disconnect() leaves the three handles unset
\* from any state; disconnect() on a Disconnected arm makes no release call
\* and raises nothing.
C15_Lifecycle ==
    /\ ArmHandlesUnset
    /\ [][(~connection /\ connection') => (Called({"connect"}) /\ ret' = "True")]_vars
    /\ [][Called({"disconnect"}) => ArmHandlesUnset']_vars
    /\ [][(Called({"disconnect"}) /\ ArmHandlesUnset) =>
             (log' = log /\ ret' = "None")]_vars

\* C16: disconnect() always resets the three handle references to unset,
\* also when the release call of one of the handles fails.
C16_DisconnectAlwaysResets ==
    [][Called({"disconnect"}) =>
          (~connection' /\ ~connection_read' /\ ~connection_io')]_vars

\* C17: move_j or move_l called on a Connected arm with a target that is not
\* a list of exactly 6 entries sends no motion command, raises nothing and
\* leaves the connection state, the home point and the offset unchanged.
C17_BadTargetNoMove ==
    [][(/\ Called({"move_j", "move_l"})
        /\ connection
        /\ ~(call'.target.kind = "list" /\ Len(call'.target.items) = 6)) =>
          /\ log' = log
          /\ ret' = "None"
          /\ UNCHANGED <<connection, connection_read, connection_io>>
          /\ UNCHANGED <<home_point, offset>>]_vars

\* move_l has just been called on a Connected arm with a list of 7 numbers.
C17_Witness ==
    /\ call.op = "move_l" /\ connection
    /\ call.target.kind = "list" /\ Len(call.target.items) = 7

\* C18: move_j called on a Connected arm with a list of 6 entries of which
\* one is not a number performs no move: the target is not forwarded to the
\* controller.
C18_NonNumericNoMove ==
    [][(/\ Called({"move_j"})
        /\ connection
        /\ call'.target.kind = "list" /\ Len(call'.target.items) = 6
        /\ call'.target.nonnum # {}) =>
          log' = log]_vars

\* A value is one the home_point setter accepts: a list of 6 numbers.
IsHomePoint(v) == v.kind = "list" /\ Len(v.items) = 6 /\ v.nonnum = {}

\* C19: move_home(speed, acceleration) on a Connected arm sends exactly one
\* joint move, with the given speed and acceleration, whose target is the
\* home point most recently assigned, the default home point if none was:
\* the home point starts as the default, changes only by the assignment of
\* a list of 6 numbers, and is the target move_home sends.
C19_MoveHomeIsMoveJ ==
    /\ home_point = HomeRad
    /\ [][home_point' = IF Called({"set_home_point"}) /\ IsHomePoint(call'.value)
                        THEN List(call'.value.items)
                        ELSE home_point]_vars
    /\ [][(Called({"move_home"}) /\ connection) =>
             /\ log' = Append(log, JointMove(home_point, call'.speed,
                                             call'.acceleration))
             /\ ret' = "None"]_vars

\* move_home has just sent a joint move to a home point that was assigned.
C19_Witness ==
    /\ call.op = "move_home" /\ connection
    /\ home_point = ValidTarget
    /\ log[Len(log)] = JointMove(ValidTarget, call.speed, call.acceleration)

\* The driver function each digital I/O method delegates to.
DriverFunction(method) ==
    CASE method = "write_digital_output" -> "setStandardDigitalOut"
      [] method = "read_digital_input" -> "getDigitalInState"
      [] method = "read_digital_output" -> "getDigitalOutState"

\* C20: write_digital_output, read_digital_input and read_digital_output
\* raise a value error for every index outside 0..7 without a driver call,
\* and for every index in 0..7 on a Connected arm they make the one driver
\* call, with that index, and raise nothing.
C20_DigitalIndexRange ==
    [][Called(DigitalMethods) =>
          IF call'.index < 0 \/ call'.index > 7
          THEN ret' = "ValueError" /\ log' = log
          ELSE (connection /\ connection_read /\ connection_io) =>
                  /\ ret' \notin Exceptions
                  /\ Len(log') = Len(log) + 1
                  /\ log'[Len(log')].op = DriverFunction(call'.op)
                  /\ log'[Len(log')].index = call'.index]_vars

\* write_digital_output has just raised a value error for index 8 on a
\* Connected arm.
C20_Witness ==
    /\ call.op = "write_digital_output" /\ call.index = 8
    /\ ret = "ValueError" /\ connection_io

\* C21: write_analog_output raises a value error, without writing to the
\* driver, whenever the index is outside 0..1 or the value is outside the
\* closed interval [0, 1] (0..1000 thousandths); for an index in 0..1 and a
\* value in [0, 1], both ends included, on a Connected arm it forwards
\* exactly that index and value.
C21_AnalogWriteRange ==
    [][Called({"write_analog_output"}) =>
          IF \/ call'.index < 0 \/ call'.index > 1
             \/ call'.value < 0 \/ call'.value > 1000
          THEN /\ ret' = "ValueError"
               /\ log' = log
               /\ analogOut' = analogOut
          ELSE (connection /\ connection_read /\ connection_io) =>
                  /\ ret' = "None"
                  /\ log' = Append(log, [op |-> "setAnalogOutputVoltage",
                                         index |-> call'.index,
                                         value |-> call'.value])]_vars

\* write_analog_output has just forwarded the value 1 for index 1 on a
\* Connected arm.
C21_Witness ==
    /\ call.op = "write_analog_output" /\ call.index = 1 /\ call.value = 1000
    /\ connection_io /\ ret = "None"
    /\ log[Len(log)] = [op |-> "setAnalogOutputVoltage", index |-> 1, value |-> 1000]

\* The actuation methods of the gripper.
Actuations == {"open_and_wait", "close_and_wait", "activate_and_wait"}

\* C24: Gripper.connect() never raises: on success it returns True with an
\* open handle, on any connection failure it returns False and leaves the
\* gripper with no handle, also when a previous handle was still open.
C24_GripperConnectNeverRaises ==
    [][Called({"gripper_connect"}) =>
          /\ ret' \in {"True", "False"}
          /\ Len(log') = Len(log) + 1
          /\ log'[Len(log')].op = "sock_connect"
          /\ ret' = "True" <=> log'[Len(log')].ok
          /\ ret' = "True" =>
                (socket' # NoSocket /\ socket' = log'[Len(log')].sock)
          /\ ret' = "False" => socket' = NoSocket]_vars

\* connect() has just failed while the handle of the connect() before it
\* was still open.
C24_Witness ==
    /\ call.op = "gripper_connect" /\ ret = "False" /\ socket = NoSocket
    /\ Len(log) = 2
    /\ log[1] = [op |-> "sock_connect", sock |-> 1, ok |-> TRUE]
    /\ log[2].op = "sock_connect" /\ ~log[2].ok

\* C25: close_connection() called when no handle is open raises nothing and
\* closes nothing; after close_connection() from any state the gripper
\* holds no handle, so calling it twice equals calling it once.
C25_CloseConnectionIdempotent ==
    [][Called({"close_connection"}) =>
          /\ ret' = "None"
          /\ socket' = NoSocket
          /\ log' = IF socket = NoSocket
                    THEN log
                    ELSE Append(log, [op |-> "sock_close", sock |-> socket])]_vars

\* close_connection() has just been called a second time after a handle
\* was opened and closed.
C25_Witness ==
    /\ call.op = "close_connection" /\ socket = NoSocket
    /\ log = <<[op |-> "sock_connect", sock |-> 1, ok |-> TRUE],
               [op |-> "sock_close", sock |-> 1]>>
    /\ ncalls > Len(log)

\* C26: the actuation methods return False and transmit nothing when no
\* gripper connection is open, return False without raising when the send
\* fails, and return True in every other case.
C26_ActuationReturn ==
    [][Called(Actuations) =>
          IF socket = NoSocket THEN ret' = "False" /\ log' = log
          ELSE IF ~call'.sendOk THEN ret' = "False"
          ELSE ret' = "True"]_vars

\* An actuation call has just returned False because its send failed.
C26_Witness ==
    /\ call.op \in Actuations /\ ~call.sendOk
    /\ socket # NoSocket /\ ret = "False"

\* C27: when the send of an actuation call fails, the handle stays set and
\* is not closed, and every actuation call made while a handle is set
\* attempts a send on it.
C27_FailedSendKeepsHandle ==
    [][(Called(Actuations) /\ socket # NoSocket) =>
          /\ Len(log') = Len(log) + 1
          /\ log'[Len(log')].op = "send"
          /\ log'[Len(log')].sock = socket
          /\ ~call'.sendOk => socket' = socket]_vars

\* Two actuation calls have attempted a send on the same handle and the
\* send of the last one failed.
C27_Witness ==
    /\ call.op \in Actuations /\ ~call.sendOk
    /\ Len(log) = 3 /\ log[2].op = "send" /\ log[3].op = "send"
    /\ log[3].sock = socket /\ log[2].sock = socket

\* The payload of each actuation method.
Payload(method) ==
    CASE method = "open_and_wait" ->
           "def process():\n$ 3 \"rq_open_and_wait()\"\n   rq_open_and_wait()\nend\n"
      [] method = "close_and_wait" ->
           "def process():\n$ 3 \"rq_close_and_wait()\"\n   rq_close_and_wait()\nend\n"
      [] method = "activate_and_wait" ->
           "def process():\n$ 3 \"rq_activate_and_wait()\"\n   rq_activate_and_wait()\nend\n"

\* C28: on a connected gripper each of open_and_wait, close_and_wait and
\* activate_and_wait transmits exactly one payload: "def process():\n",
\* then $ 3 "rq_X()"\n   rq_X() with X the method's name, then "\nend\n".
C28_ExactPayload ==
    [][(Called(Actuations) /\ socket # NoSocket) =>
          log' = Append(log, [op |-> "send", sock |-> socket,
                              payload |-> Payload(call'.op)])]_vars

\* activate_and_wait has just transmitted its payload.
C28_Witness ==
    /\ call.op = "activate_and_wait" /\ ret = "True"
    /\ log[Len(log)].op = "send"
    /\ log[Len(log)].payload = Payload("activate_and_wait")

\* C29: get_current_joints and get_current_pose never raise: they return
\* None when the arm is Disconnected and when the controller query fails,
\* and they change none of the connection state, home point and offset.
C29_QueriesNeverRaise ==
    [][Called({"get_current_joints", "get_current_pose"}) =>
          /\ ret' \in {"None", "list"}
          /\ ~connection => (ret' = "None" /\ log' = log)
          /\ call'.outcome # "ok" => ret' = "None"
          /\ UNCHANGED <<connection, connection_read, connection_io>>
          /\ UNCHANGED <<home_point, offset>>]_vars

\* get_current_pose has just returned None on a Connected arm because the
\* controller query raised.
C29_Witness ==
    /\ call.op = "get_current_pose" /\ call.outcome = "query"
    /\ connection /\ ret = "None"
    /\ log[Len(log)] = [op |-> "getActualTCPPose", ok |-> FALSE]

\* Entries of the monitor's I/O: a write of enable True, a write that stops
\* the conveyor (enable False or speed 0), and a read of a sensor.
IsEnableOn(e) == e.op = "setStandardDigitalOut" /\ e.index = 2 /\ e.value
IsStopWrite(e) ==
    \/ e.op = "setStandardDigitalOut" /\ e.index = 2 /\ ~e.value
    \/ e.op = "setAnalogOutputVoltage" /\ e.index = 1 /\ e.value = 0
IsSensorRead(e, sensor, value) ==
    e.op = "getDigitalInState" /\ e.index = sensor /\ e.value = value

\* C30: once run_conveyor_monitor has written the conveyor-enable output
\* True, it writes enable False or speed 0 only on a tick on which the end
\* sensor has read asserted (the read is one of the two I/O calls before the
\* write), also when the start sensor is not asserted on later ticks.
C30_RunsUntilEnd ==
    \A i \in 1..Len(MonitorIO) : \A j \in (i + 1)..Len(MonitorIO) :
        (IsEnableOn(MonitorIO[i]) /\ IsStopWrite(MonitorIO[j])) =>
            \E k \in {j - 2, j - 1} :
                k > i /\ IsSensorRead(MonitorIO[k], 2, TRUE)

\* Enable was written True, on a later tick the start sensor read not
\* asserted, and the end sensor has not been asserted: the monitor is
\* still polling.
C30_Witness ==
    /\ inMonitor /\ ~stop /\ ~EndAsserted
    /\ \E i \in 1..Len(MonitorIO) : \E j \in (i + 1)..Len(MonitorIO) :
          IsEnableOn(MonitorIO[i]) /\ IsSensorRead(MonitorIO[j], 3, FALSE)

\* C22: after home_point is assigned a valid list L of 6 numbers, the
\* getter returns a list equal to L that is a distinct object, and changing
\* L afterwards, or a list the getter returned before, does not change what
\* later getter calls return: the assignment stores the entries L has then;
\* the getter returns those entries in an object the caller did not hold
\* before; no other step of the caller, a change of one of its lists
\* included, changes the entries stored.
C22_HomePointDefensiveCopy ==
    /\ [][(Called({"set_home_point"}) /\ IsHomePoint(call'.value)) =>
             home_point' = List(call'.value.items)]_vars
    /\ [][Called({"get_home_point"}) =>
             /\ got' \notin 1..Len(heap)
             /\ got' \in 1..Len(heap')
             /\ heap'[got'] = home_point
             /\ \A ref \in 1..Len(heap) : heap'[ref] = heap[ref]]_vars
    /\ [][~(Called({"set_home_point"}) /\ IsHomePoint(call'.value)) =>
             home_point' = home_point]_vars

\* The list that was assigned has been changed since, and the getter has
\* just returned a list with the entries assigned.
C22_Witness ==
    /\ call.op = "get_home_point"
    /\ got = 2 /\ heap[got] = ValidTarget
    /\ heap[1].kind = "list" /\ heap[1] # ValidTarget
    /\ Tail(heap[1].items) = Tail(ValidTarget.items)

\* The value is none the setters store: no list, a list not of length 6, or
\* a list with an entry that is not a number.
IsInvalid(v) == v.kind # "list" \/ Len(v.items) # 6 \/ v.nonnum # {}

\* C23: assigning to home_point or offset a value that is not a list (other
\* than None for offset), a list whose length is not 6, or a list with a
\* non-numeric entry raises TypeError or ValueError and leaves the stored
\* home point and offset unchanged.
C23_SettersRejectInvalid ==
    [][(/\ Called({"set_home_point", "set_offset"})
        /\ IsInvalid(call'.value)
        /\ ~(call'.op = "set_offset" /\ call'.value.kind = "None")) =>
          /\ ret' \in {"TypeError", "ValueError"}
          /\ home_point' = home_point
          /\ offset' = offset]_vars

\* The offset setter has just raised ValueError for a list of 6 entries of
\* which one is not a number, after an offset was assigned.
C23_Witness ==
    /\ call.op = "set_offset" /\ ret = "ValueError"
    /\ Len(call.value.items) = 6 /\ call.value.nonnum # {}
    /\ offset = ValidTarget

\* C31: within run_pick_and_place_cycle the digital and analog outputs are
\* written only inside run_conveyor_monitor: no step outside the monitor's
\* loop changes an output or makes an I/O call, and from the monitor's
\* return of True on the conveyor-enable output is False and the conveyor
\* speed is 0.
C31_OutputsOnlyInMonitor ==
    /\ [](monitorRet = "True" => (~digitalOut[2] /\ analogOut[1] = 0))
    /\ [][(\/ digitalOut' # digitalOut
           \/ analogOut' # analogOut
           \/ \E i \in 1..Len(Added) : IsIO(Added[i])) =>
             (inMonitor /\ ~stop)]_vars

\* The cycle has returned True after a run in which the conveyor was
\* started, and the conveyor is off.
C31_Witness ==
    /\ cycleRet = "True" /\ monitorRet = "True"
    /\ \E i \in 1..Len(EnableWrites) : EnableWrites[i].value
    /\ ~digitalOut[2] /\ analogOut[1] = 0

\* C32: whenever run_pick_and_place_cycle returns True, the arm is
\* Disconnected and the gripper object holds no handle, whatever the
\* outcomes of the reconnects made during the cycle.
C32_ReturnsDisconnected ==
    cycleRet = "True" =>
        /\ ~connection /\ ~connection_read /\ ~connection_io
        /\ socket = NoSocket

\* The cycle has returned True after a reconnect of the arm and a reconnect
\* of the gripper failed.
C32_Witness ==
    /\ cycleRet = "True"
    /\ \E i \in 1..Len(log) : log[i].op = "rtde_connect" /\ ~log[i].ok
    /\ \E i \in 1..Len(log) : log[i].op = "sock_connect" /\ ~log[i].ok

\* C33: in the pick-and-place loop of example.py, provided every connect
\* succeeds, the arm is Connected and the gripper has no open connection at
\* the start of every iteration, and at no point of an iteration are the
\* arm and the gripper connected at the same time.
C33_ExampleOneDeviceAtATime ==
    /\ ExAt({"while_input"}) => (connection /\ socket = NoSocket)
    /\ ~(connection /\ socket # NoSocket)

\* The program is at the start of its second iteration.
C33_Witness ==
    /\ ExAt({"while_input"}) /\ iterations >= 1
    /\ connection /\ socket = NoSocket

\* C34: in main.py, once the listener thread has issued stopJ, the movement
\* thread issues no further moveJ command.
C34_NoMoveAfterStop ==
    \A i \in 1..Len(commands), j \in 1..Len(commands) :
        (i < j /\ commands[i].op = "stopJ") => commands[j].op # "moveJ"

\* C35: when the calls of the repository are executed one at a time,
\* starting from at most one active connection, at most one connection is
\* active after each of them.
C35_AtMostOneActiveSequential ==
    Quiescent => Cardinality(ActiveIds) <= 1

\* A create_connection with is_active true has returned; a row was active
\* when it began, and its row is the active one now.
C35_Witness ==
    \E r \in Slots :
        /\ requests[r].pc = "done"
        /\ requests[r].op = "create_connection" /\ requests[r].kw = "True"
        /\ \E i \in Ids : requests[r].before[i].is_active
        /\ Cardinality(ActiveIds) = 1

\* C36: at most one connection is active once all requests have completed,
\* also when create_connection, update_connection and activate_connection
\* calls interleave at their awaits.
C36_AtMostOneActiveConcurrent ==
    (Quiescent /\ served > 0) => Cardinality(ActiveIds) <= 1

\* C37: activate_connection with an id that matches no stored row returns
\* False and leaves is_active of every stored row as it was.
C37_UnknownIdChangesNothing ==
    \A r \in Slots :
        (/\ requests[r].pc = "done"
         /\ requests[r].op = "activate_connection"
         /\ ~requests[r].before[requests[r].id].stored)
        => (requests[r].ret = "False" /\ rows = requests[r].before)

\* C38: under every interleaving of the camera worker and the /detections
\* requests, detection_queue never holds more than one item, the second put
\* of the worker's publish sequence never raises, and when a publish has
\* finished the queue holds the newest result and nothing else.
C38_PublishKeepsNewest ==
    /\ [](Len(detection_queue) <= 1 /\ worker # "raised")
    /\ [][(worker \in {"put", "put_again"} /\ worker' = "while") =>
            detection_queue' = <<Result(frames)>>]_vars

\* A publish has finished on its second put: the first one found the queue
\* full, and a request took the old item before the worker could.
C38_Witness ==
    /\ worker = "while"
    /\ discarded = "Empty"
    /\ frames >= 2
    /\ detection_queue = <<Result(frames)>>
    /\ queued_item = Result(frames - 1)

====
